---------------------------- MODULE Spec2Model ----------------------------
(***************************************************************************)
(* A model of the chip-design optimizer of this repository:                *)
(*   - ReplayBuffer and ChipDesignAgent (src/src/lib/chip/ChipDesignAgent.ts)*)
(*   - AlphaChipOptimizer (src/src/lib/chip/AlphaChipOptimizer.ts)         *)
(*   - the transition function App.handleChipOptimization (src/src/App.tsx)*)
(*   - the two optimization loops (ChipOptimizer.tsx, AlphaChipVisualizer.tsx)*)
(*   - HolographicProcessor.loadState and the processors it writes to.     *)
(* Each subsystem has its own specification over the shared variables; the *)
(* variables of the other subsystems stay at their construction values.    *)
(* Numbers that are floating point in the source are fixed point here.     *)
(***************************************************************************)
EXTENDS Integers, Sequences, FiniteSets, TLC

(***************************************************************************)
(* Bounds of the model.                                                    *)
(***************************************************************************)
\* capacities of the stand-alone ReplayBuffer that are explored: 1..MaxCapacity
MaxCapacity == 3
\* add calls made on the stand-alone ReplayBuffer
MaxAdds == 4
\* largest batchSize passed to ReplayBuffer.sample in the stand-alone buffer
MaxSample == 2
\* train calls made on the ChipDesignAgent (beyond batchSize, so training runs)
MaxTrainCalls == 34
\* the first VariedCalls train calls draw their transition from TrainInputs,
\* the later ones pass DefaultTransition
VariedCalls == 3

(***************************************************************************)
(* Program constants.                                                      *)
(***************************************************************************)
\* ChipDesignAgent.batchSize
batchSize == 32
\* new ReplayBuffer(10000) in the ChipDesignAgent constructor
MemoryCapacity == 10000
\* ChipDesignAgent.actionSize
AgentActionSize == 4
\* ChipDesignAgent.stateSize
AgentStateSize == 10
\* AlphaChipOptimizer.actionSize
PolicyActionSize == 8
\* AlphaChipOptimizer.stateSize
PolicyStateSize == 30

(***************************************************************************)
(* enum ChipAction { AddProcessor, AddMemory, OptimizeConnections,         *)
(* RemoveComponent }: a numeric enum, so the members are 0, 1, 2, 3.       *)
(***************************************************************************)
AddProcessor == 0
AddMemory == 1
OptimizeConnections == 2
RemoveComponent == 3
ChipAction == {AddProcessor, AddMemory, OptimizeConnections, RemoveComponent}

\* The value JavaScript gives for a missing array element.
Undefined == [undefined |-> TRUE]

\* The result of a call: none yet, a value returned, or an error raised (for
\* an async function: the promise it returned was rejected).
NoResult == [done |-> FALSE]
Returned(v) == [done |-> TRUE, value |-> v]
Raised(e) == [done |-> TRUE, error |-> e]

VARIABLES
  \* ---- ReplayBuffer (also ChipDesignAgent.memory)
  buffer,        \* ReplayBuffer.buffer: the stored transitions, oldest first
  capacity,      \* ReplayBuffer.capacity
  added,         \* observer: every transition passed to add, in call order
  samples,       \* the array the last sample() call returned
  \* ---- ChipDesignAgent
  model,         \* ChipDesignAgent.model: the number of trainOnBatch steps applied
  trainLog,      \* observer: what the last train() call did and returned
  \* ---- the state encoders (stateToVector of both agents)
  codecInput,    \* the ChipState handed to the encoders
  agentVector,   \* what ChipDesignAgent.stateToVector returned for it
  policyVector,  \* what AlphaChipOptimizer's padStateVector(stateToVector()) returned
  \* ---- AlphaChipOptimizer
  processorState,\* AlphaChipOptimizer.processorState
  policyLog,     \* observer: what the last getNextAction() call did
  \* ---- App: the chip state and the objects it refers to
  arrays,        \* the array objects (components, connections), by reference
  perfs,         \* the PerformanceMetrics objects, by reference
  chipState,     \* App's chipState: a ChipState object whose components,
                 \* connections and performance fields are references
  appLog,        \* observer: the last call of a transition function
  \* ---- ChipOptimizer: the loop of toggleOptimization
  isOptimizing,  \* the isOptimizing state of the last render
  currentState,  \* the currentState state of the last render
  optimizerUpdates, \* state updates queued for the next render
  loopRuns,      \* the toggleOptimization invocations that have not returned
  requests,      \* observer: what each click asked for, "start" or "stop"
  iterations,    \* observer: for each completed iteration, the request that started its loop
  \* ---- AlphaChipVisualizer: the auto-optimize interval
  isAutoOptimizing, \* the isAutoOptimizing state of the last render
  intervalRef,   \* intervalRef.current (0: undefined)
  intervals,     \* the ids of the intervals that are set and not cleared
  vizUpdates,    \* state updates queued for the next render
  callbacks,     \* the interval callbacks suspended at their await
  vizLog,        \* observer: counts of ticks, completed callbacks and switch changes
  \* ---- HolographicProcessor and its quantum and photonic processors
  wavefunction,  \* QuantumProcessor.quantumState.wavefunction
  probability,   \* QuantumProcessor.quantumState.probability
  entanglementDegree, \* QuantumProcessor.quantumState.entanglementDegree
  processingSpeed, \* QuantumProcessor.processingSpeed
  interferencePattern, \* PhotonicProcessor.interferencePattern
  hologramPlate, \* PhotonicProcessor.hologramPlate
  lastError,     \* HolographicProcessor.lastError
  holoLog,       \* observer: the last loadState call
  \* ---- the persistent slots of the two agents
  agentCompiled, \* whether ChipDesignAgent.model is compiled
  policyModel,   \* AlphaChipOptimizer.model: the weights it holds
  policyCompiled, \* whether AlphaChipOptimizer.model is compiled
  slots,         \* what local storage holds under the key of each agent
  loadLog,       \* observer: the last load() or save() call
  \* ---- the entry points of the two agents, called with any state
  entryLog,      \* observer: the last call of an entry point
  \* ---- reward
  rewardLog,\* observer: the calls of calculateReward, in order
  \* ---- sample
  sampleLog,\* observer: the last call of sample() on the stand-alone buffer
  \* ---- target
  targetLog,\* observer: the rows of updatedQValues computed so far
  \* ---- queue
  processingQueue, \* HolographicProcessor.processingQueue
  isProcessing, \* HolographicProcessor.isProcessing
  drains, \* the processQueue invocations suspended at their delay
  queueLog \* observer: the numbers of processText and dispose calls

bufferVars == <<buffer, capacity, added, samples>>
agentVars == <<model, trainLog>>
codecVars == <<codecInput, agentVector, policyVector>>
policyVars == <<processorState, policyLog>>
appVars == <<arrays, perfs, chipState, appLog>>
loopVars == <<isOptimizing, currentState, optimizerUpdates, loopRuns, requests, iterations>>
vizVars == <<isAutoOptimizing, intervalRef, intervals, vizUpdates, callbacks, vizLog>>
holoVars == <<wavefunction, probability, entanglementDegree, processingSpeed,
              interferencePattern, hologramPlate, lastError, holoLog>>
persistVars == <<agentCompiled, policyModel, policyCompiled, slots, loadLog>>
entryVars == <<entryLog>>
rewardVars == <<rewardLog>>
sampleVars == <<sampleLog>>
targetVars == <<targetLog>>
queueVars == <<processingQueue, isProcessing, drains, queueLog>>
vars == <<bufferVars, agentVars, codecVars, policyVars, appVars, loopVars, vizVars, holoVars,
          persistVars, entryVars,
          rewardVars,
          sampleVars,
          targetVars,
          queueVars>>

\* what the actions of a subsystem leave alone: the variables of the others
outsideBuffer == <<agentVars, codecVars, policyVars, appVars, loopVars, vizVars, holoVars,
    persistVars, entryVars,
    rewardVars,
    targetVars,
    queueVars>>
outsideAgent == <<codecVars, policyVars, appVars, loopVars, vizVars, holoVars, persistVars, entryVars,
    rewardVars,
    sampleVars,
    targetVars,
    queueVars>>
outsideCodec == <<bufferVars, agentVars, policyVars, appVars, loopVars, vizVars, holoVars,
    persistVars, entryVars,
    rewardVars,
    sampleVars,
    targetVars,
    queueVars>>
outsidePolicy == <<bufferVars, agentVars, codecVars, appVars, loopVars, vizVars, holoVars,
    persistVars, entryVars,
    rewardVars,
    sampleVars,
    targetVars,
    queueVars>>
outsideApp == <<bufferVars, agentVars, codecVars, policyVars, loopVars, vizVars, holoVars,
    persistVars, entryVars,
    rewardVars,
    sampleVars,
    targetVars,
    queueVars>>
outsideLoop == <<codecVars, policyVars, appVars, vizVars, holoVars, persistVars, entryVars,
    rewardVars,
    sampleVars,
    targetVars,
    queueVars>>
outsideViz == <<bufferVars, agentVars, codecVars, loopVars, holoVars, persistVars, entryVars,
    rewardVars,
    sampleVars,
    targetVars,
    queueVars>>
outsidePersist == <<bufferVars, trainLog, codecVars, policyVars, appVars, loopVars, vizVars,
                    holoVars, entryVars,
    rewardVars,
    sampleVars,
    targetVars,
    queueVars>>
outsideEntry == <<capacity, codecVars, policyLog, appVars, loopVars, vizVars, holoVars,
                  rewardVars,
    sampleVars,
    targetVars,
    queueVars>>
outsideHolo == <<bufferVars, agentVars, codecVars, policyVars, appVars, loopVars, vizVars,
    persistVars, entryVars,
    rewardVars,
    sampleVars,
    targetVars>>

(***************************************************************************)
(* ReplayBuffer                                                            *)
(***************************************************************************)
\* A stored transition {state, action, reward, nextState}; ChipStates are
\* named by a small integer here, rewards are in hundredths.
Transition(s, a, r, n) == [state |-> s, action |-> a, reward |-> r, nextState |-> n]

BufferInputs ==
  { Transition(0, AddProcessor, 50, 1),
    Transition(1, OptimizeConnections, 75, 1),
    Transition(1, RemoveComponent, 25, 0) }

\* Array.prototype.shift: drops the first element (nothing on an empty array)
Shift(arr) == IF Len(arr) = 0 THEN arr ELSE Tail(arr)

\* ReplayBuffer.add
BufferAdd_DropNewest(buf, cap, t) ==
  Append(IF Len(buf) >= cap THEN SubSeq(buf, 1, Len(buf) - 1) ELSE buf, t)
BufferAdd(buf, cap, t) ==
  Append(IF Len(buf) >= cap THEN Shift(buf) ELSE buf, t)

\* ReplayBuffer.sample: draws[i] is Math.floor(Math.random() * buffer.length)
\* of the i-th round; buffer[index] of an empty array is undefined.
BufferSample_Distinct(buf, n, draws) ==
  [i \in 1..(IF n < Len(buf) THEN n ELSE Len(buf)) |->
     IF draws[i] + 1 \in DOMAIN buf THEN buf[draws[i] + 1] ELSE Undefined]
BufferSample(buf, n, draws) ==
  [i \in 1..n |-> IF draws[i] + 1 \in DOMAIN buf THEN buf[draws[i] + 1] ELSE Undefined]

\* The values Math.floor(Math.random() * len) can take: Math.random() is in [0, 1).
RandomIndex(len) == IF len = 0 THEN {0} ELSE 0..(len - 1)

\* ReplayBuffer.size
BufferSize(buf) == Len(buf)

\* the constructor of ReplayBuffer, with a capacity in 1..MaxCapacity
BufferInit ==
  /\ buffer = <<>>
  /\ capacity \in 1..MaxCapacity
  /\ added = <<>>
  /\ samples = <<>>

\* a call of add(state, action, reward, nextState)
Add ==
  /\ Len(added) < MaxAdds
  /\ \E t \in BufferInputs :
       /\ buffer' = BufferAdd(buffer, capacity, t)
       /\ added' = Append(added, t)
  /\ UNCHANGED <<capacity, samples, sampleLog, outsideBuffer>>

\* a call of sample(batchSize)
Sample ==
  /\ \E n \in 1..MaxSample :
       \E draws \in [1..n -> RandomIndex(Len(buffer))] :
         /\ samples' = BufferSample(buffer, n, draws)
         /\ sampleLog' = [calls |-> 1, batchSize |-> n, before |-> buffer, after |-> buffer]
  /\ UNCHANGED <<buffer, capacity, added, outsideBuffer>>

(***************************************************************************)
(* ChipState values.  A number of the source is held in thousandths:       *)
(* Fixed(75) is 75, 800 is 0.8.                                            *)
(***************************************************************************)
Scale == 1000
Fixed(n) == n * Scale

\* bounds of the ChipStates handed to the encoders
MaxComponents == 6
MaxConnections == 6

Min(a, b) == IF a <= b THEN a ELSE b
Max(a, b) == IF a >= b THEN a ELSE b

\* the i-th component of a test state: every field differs from component to
\* component, so that the order of an encoding shows
TestComponent(i) ==
  [id |-> <<"processor", i>>,
   position |-> [x |-> Fixed(i), y |-> Fixed(10 + i), z |-> Fixed(20 + i)],
   type |-> "processor", connections |-> <<>>,
   efficiency |-> Fixed(75 + i), temperature |-> Fixed(30 + i), load |-> 500]

TestConnection(j) ==
  [id |-> <<"connection", j>>, from |-> <<"processor", 1>>,
   to |-> <<"processor", 2>>, weight |-> 100 * j]

\* the initial chipState of App (useState<ChipState>({...}))
DefaultPerformance ==
  [powerEfficiency |-> Fixed(75), areaUtilization |-> Fixed(80),
   thermalDissipation |-> Fixed(20), signalIntegrity |-> Fixed(90)]

OtherPerformance ==
  [powerEfficiency |-> Fixed(100), areaUtilization |-> 0,
   thermalDissipation |-> Fixed(55), signalIntegrity |-> Fixed(33)]

\* A ChipState with nc components and nn connections; nn = -1 is a state
\* without a connections property, as the ChipState of lib/chip/types.ts is
\* declared (the App's state object carries connections: []).
TestState(nc, nn, perf) ==
  LET typed == [components |-> [i \in 1..nc |-> TestComponent(i)],
                performance |-> perf,
                quantumCoherence |-> 800, processingPower |-> 1000,
                networkEfficiency |-> 850, entanglementDegree |-> 750,
                holographicFidelity |-> 900]
  IN IF nn < 0
       THEN typed
       ELSE typed @@ [connections |-> [j \in 1..nn |-> TestConnection(j)]]

DefaultChipState == TestState(0, 0, DefaultPerformance)

\* a state object without its performance property
MalformedChipState == [components |-> <<>>, connections |-> <<>>]

TestStates ==
  { TestState(nc, nn, perf) :
      nc \in 0..MaxComponents, nn \in (-1)..MaxConnections,
      perf \in {DefaultPerformance, OtherPerformance} }

(***************************************************************************)
(* The encoders                                                            *)
(***************************************************************************)
\* ChipDesignAgent.normalizeMetrics
NormalizeMetrics(metrics) ==
  [powerEfficiency |-> metrics.powerEfficiency \div 100,
   areaUtilization |-> metrics.areaUtilization \div 100,
   thermalDissipation |-> metrics.thermalDissipation \div 100,
   signalIntegrity |-> metrics.signalIntegrity \div 100]

\* ChipDesignAgent.stateToVector reads state.performance.powerEfficiency (in
\* normalizeMetrics) and state.components.length: a TypeError when the state
\* has no performance or no components property
AgentEncodes(state) == {"components", "performance"} \subseteq DOMAIN state

\* ChipDesignAgent.stateToVector
AgentStateToVector(state) ==
  LET metrics == NormalizeMetrics(state.performance) IN
    << Fixed(Len(state.components)) \div 1000,
       metrics.powerEfficiency,
       metrics.areaUtilization,
       metrics.thermalDissipation,
       metrics.signalIntegrity,
       state.quantumCoherence,
       state.processingPower,
       state.networkEfficiency,
       state.entanglementDegree,
       state.holographicFidelity >>

\* Array.prototype.slice(0, n)
Slice(arr, n) == SubSeq(arr, 1, Min(n, Len(arr)))

\* Array.prototype.flatMap over arrays of arrays
RECURSIVE Flatten(_)
Flatten(arrs) == IF arrs = <<>> THEN <<>> ELSE Head(arrs) \o Flatten(Tail(arrs))

\* AlphaChipOptimizer.stateToVector reads state.connections.length: a TypeError
\* when the state has no connections property
PolicyEncodes(state) == {"components", "connections", "performance"} \subseteq DOMAIN state

\* AlphaChipOptimizer.stateToVector
PolicyStateToVector(state) ==
  LET first5 == Slice(state.components, 5)
      conn5 == Slice(state.connections, 5)
  IN << Fixed(Len(state.components)),
        Fixed(Len(state.connections)),
        state.performance.powerEfficiency,
        state.performance.areaUtilization,
        state.performance.thermalDissipation,
        state.performance.signalIntegrity,
        state.quantumCoherence,
        state.processingPower,
        state.networkEfficiency,
        state.entanglementDegree,
        state.holographicFidelity >>
     \o Flatten([i \in 1..Len(first5) |->
                   << first5[i].position.x, first5[i].position.y,
                      first5[i].position.z, first5[i].efficiency,
                      first5[i].temperature >>])
     \o [j \in 1..Len(conn5) |-> conn5[j].weight]

\* AlphaChipOptimizer.padStateVector
PadStateVector_NoSlice(vector) ==
  vector \o [k \in 1..Max(0, PolicyStateSize - Len(vector)) |-> 0]
PadStateVector(vector) ==
  LET padded == vector \o [k \in 1..Max(0, PolicyStateSize - Len(vector)) |-> 0]
  IN SubSeq(padded, 1, Min(PolicyStateSize, Len(padded)))

CodecInit ==
  /\ codecInput \in TestStates
  /\ agentVector = NoResult
  /\ policyVector = NoResult

\* this.stateToVector(state) of ChipDesignAgent
AgentEncode ==
  /\ agentVector' = Returned(AgentStateToVector(codecInput))
  /\ UNCHANGED <<codecInput, policyVector, outsideCodec>>

\* this.padStateVector(this.stateToVector(state)) of AlphaChipOptimizer
PolicyEncode ==
  /\ policyVector' = IF PolicyEncodes(codecInput)
                       THEN Returned(PadStateVector(PolicyStateToVector(codecInput)))
                       ELSE Raised("TypeError")
  /\ UNCHANGED <<codecInput, agentVector, outsideCodec>>

(***************************************************************************)
(* ChipDesignAgent.train                                                   *)
(***************************************************************************)
DefaultTransition == Transition(DefaultChipState, OptimizeConnections, 75, DefaultChipState)

TrainInputs ==
  { DefaultTransition,
    Transition(DefaultChipState, AddProcessor, 50, TestState(1, 0, DefaultPerformance)),
    Transition(MalformedChipState, AddProcessor, 50, DefaultChipState) }

\* The transitions the k-th train call may be given.
TrainInput(k) == IF k <= VariedCalls THEN TrainInputs ELSE {DefaultTransition}

\* The index sequences explored for the batchSize rounds of sample() in train:
\* the rounds of Math.random() are independent, and of their combinations the
\* model explores those that start at an index and step through the buffer
\* with a stride.
BatchDraws(n, len) ==
  { [i \in 1..n |-> (start + i * stride) % len] :
      start \in {0, len - 1}, stride \in {0, 1} }

\* The loss trainOnBatch returns, in hundredths: a number >= 0.
LossValues == {0, 7}

\* Where the tensor library may fail in the tidy block of train.
TrainFaults == {"none", "trainOnBatch"}

\* whether stateToVector returns for the state and the nextState of every
\* experience of the batch
BatchEncodes(batch) ==
  \A i \in 1..Len(batch) : AgentEncodes(batch[i].state) /\ AgentEncodes(batch[i].nextState)

\* Where the tidy block of train ends early, if it does: at the first
\* stateToVector that throws, or else where the library fails.
TrainFault(batch, fault) == IF BatchEncodes(batch) THEN fault ELSE "stateToVector"

\* How a call of train that reached its tidy block ends: train has no try
\* block, so what the library throws rejects the promise train returned.
TrainOutcome(fault, loss) ==
  CASE fault = "none" -> Returned(loss)
    [] fault = "stateToVector" -> Raised("TypeError")
    [] OTHER -> Raised("Error")

\* `await promise` in a function without a try block: the function goes on
\* when the promise is fulfilled, and ends there when it is rejected.
AwaitCompletes(outcome) == "value" \in DOMAIN outcome

\* the test `this.memory.size() < this.batchSize` of train, on the size read
\* after the add
TrainingSkipped_OffByOne(size) == size < batchSize - 1
TrainingSkipped(size) == size < batchSize

\* the constructor of ChipDesignAgent
AgentInit ==
  /\ buffer = <<>>
  /\ capacity = MemoryCapacity
  /\ added = <<>>
  /\ samples = <<>>
  /\ model = 0
  /\ trainLog = [calls |-> 0]

\* The body of train(state, action, reward, nextState) for the transition t.
\* trainLog keeps the argument, the occupancy and the model before the call,
\* whether sample() was called, where the library failed, how the call ended
\* and the value returned, if one was.
TrainCall(t) ==
  LET mem == BufferAdd(buffer, capacity, t)
      log == [calls |-> trainLog.calls + 1, given |-> t,
              before |-> BufferSize(buffer), modelBefore |-> model]
  IN
    /\ buffer' = mem
    /\ added' = Append(added, t)
    /\ IF TrainingSkipped(BufferSize(mem))
         THEN /\ UNCHANGED <<samples, model>>
              /\ trainLog' = [sampled |-> FALSE, result |-> 0, fault |-> "none",
                              outcome |-> Returned(0)] @@ log
         ELSE \E draws \in BatchDraws(batchSize, BufferSize(mem)),
                 loss \in LossValues, library \in TrainFaults :
                LET batch == BufferSample(mem, batchSize, draws)
                    fault == TrainFault(batch, library)
                IN /\ samples' = batch
                   /\ model' = IF fault = "none" THEN model + 1 ELSE model
                   /\ trainLog' = IF fault = "none"
                                    THEN [sampled |-> TRUE, result |-> loss, fault |-> fault,
                                          outcome |-> TrainOutcome(fault, loss)] @@ log
                                    ELSE [sampled |-> TRUE, fault |-> fault,
                                          outcome |-> TrainOutcome(fault, loss)] @@ log

\* ChipDesignAgent.train(state, action, reward, nextState)
Train ==
  /\ trainLog.calls < MaxTrainCalls
  /\ \E t \in TrainInput(trainLog.calls + 1) : TrainCall(t)
  /\ UNCHANGED <<capacity, outsideAgent>>

(***************************************************************************)
(* AlphaChipOptimizer.getNextAction                                        *)
(***************************************************************************)
\* Where a call of the tensor library may fail in getNextAction.
Faults == {"none", "tensor2d", "predict", "argMax"}

\* The outcome of getNextAction() on processorState `state`, when the library
\* fails at `fault` and the arg-max of a completed prediction is `index`:
\* the tidy block that builds the input precedes the try block, the forward
\* pass and the arg-max are inside it.
GetNextActionResult_Rethrow(state, fault, index) ==
  IF ~PolicyEncodes(state) \/ fault # "none"
    THEN Raised("Error")
    ELSE Returned(index)
GetNextActionResult(state, fault, index) ==
  IF ~PolicyEncodes(state)
    THEN Raised("TypeError")
    ELSE IF fault = "tensor2d"
      THEN Raised("Error")
      ELSE IF fault \in {"predict", "argMax"}
        THEN Returned(OptimizeConnections)
        ELSE Returned(index)

\* new AlphaChipOptimizer(initialState)
PolicyInit ==
  /\ processorState \in TestStates
  /\ policyLog = [calls |-> 0]

\* AlphaChipOptimizer.getNextAction()
GetNextAction ==
  /\ \E fault \in Faults, index \in 0..(PolicyActionSize - 1) :
       policyLog' = [calls |-> 1, fault |-> fault,
                     result |-> GetNextActionResult(processorState, fault, index)]
  /\ UNCHANGED <<processorState, outsidePolicy>>

(***************************************************************************)
(* The transition functions: App.handleChipOptimization and                *)
(* ChipOptimizer.applyAction                                               *)
(*                                                                         *)
(* A ChipState object holds its components array, its connections array    *)
(* and its performance object by reference; two ChipState objects with the *)
(* same reference share that array or object.                              *)
(***************************************************************************)
MaxAppCalls == 3

\* The values Math.random() takes here, in thousandths.
RandomValues == {0, 999}
\* The draws of one call: one value for the fields of a new component, one
\* for the four changes of the performance metrics.
RandomDraws == [component : RandomValues, jitter : RandomValues]

\* What the policy can ask for: the index of one of its actionSize outputs.
PolicyActions == 0..(PolicyActionSize - 1)

ComponentsRef == 1
ConnectionsRef == 2
PerformanceRef == 1

\* The chipState App starts with, and the objects it refers to.
InitialChipState ==
  [components |-> ComponentsRef, connections |-> ConnectionsRef,
   performance |-> PerformanceRef,
   quantumCoherence |-> 800, processingPower |-> 1000,
   networkEfficiency |-> 850, entanglementDegree |-> 750,
   holographicFidelity |-> 900]
InitialArrays == (ComponentsRef :> <<>>) @@ (ConnectionsRef :> <<>>)
InitialPerfs == (PerformanceRef :> DefaultPerformance)

\* The value of a ChipState object: its fields with the references followed.
Deref(state, arrs, prfs) ==
  [components |-> arrs[state.components],
   connections |-> arrs[state.connections],
   performance |-> prfs[state.performance],
   quantumCoherence |-> state.quantumCoherence,
   processingPower |-> state.processingPower,
   networkEfficiency |-> state.networkEfficiency,
   entanglementDegree |-> state.entanglementDegree,
   holographicFidelity |-> state.holographicFidelity]

\* The component that the AddProcessor case pushes onto an array of length
\* `len`.
NewProcessor_SameId(len, r) ==
  [id |-> <<"processor", 1>>,
   position |-> [x |-> 10 * r, y |-> 10 * r, z |-> 10 * r],
   type |-> "processor",
   connections |-> <<>>,
   efficiency |-> Fixed(75) + 25 * r,
   temperature |-> Fixed(20) + 30 * r,
   load |-> r]
NewProcessor(len, r) ==
  [id |-> <<"processor", len + 1>>,
   position |-> [x |-> 10 * r, y |-> 10 * r, z |-> 10 * r],
   type |-> "processor",
   connections |-> <<>>,
   efficiency |-> Fixed(75) + 25 * r,
   temperature |-> Fixed(20) + 30 * r,
   load |-> r]

\* The object that replaces newState.performance after the switch.
Jitter_NoClamp(performance, r) ==
  [powerEfficiency |-> performance.powerEfficiency + 2 * r,
   areaUtilization |-> performance.areaUtilization + 2 * r,
   thermalDissipation |-> performance.thermalDissipation - r,
   signalIntegrity |-> performance.signalIntegrity + 2 * r]
Jitter(performance, r) ==
  [powerEfficiency |-> Min(Fixed(100), performance.powerEfficiency + 2 * r),
   areaUtilization |-> Min(Fixed(100), performance.areaUtilization + 2 * r),
   thermalDissipation |-> Max(0, performance.thermalDissipation - r),
   signalIntegrity |-> Min(Fixed(100), performance.signalIntegrity + 2 * r)]

\* The two assignments of the OptimizeConnections case.
OptimizeConnectionsCase_Empty(performance) == performance
OptimizeConnectionsCase(performance) ==
  [performance EXCEPT
     !.signalIntegrity = Min(Fixed(100), performance.signalIntegrity + Fixed(5)),
     !.powerEfficiency = Min(Fixed(100), performance.powerEfficiency + Fixed(3))]

\* A reference that no object of `heap` has.
NewRef(heap) == CHOOSE ref \in 1..(Cardinality(DOMAIN heap) + 1) : ref \notin DOMAIN heap

\* The updater that handleChipOptimization(action) hands to setChipState,
\* applied to prevState: the state it returns, and the objects after it ran.
\* newState is a shallow copy, so the push and the two assignments of the
\* switch act on the array and on the performance object of prevState; the
\* switch has no case for the other actions and no default.
HandleChipOptimization(prevState, arrs, prfs, action, rnd) ==
  LET newState == prevState
      pushed == IF action = AddProcessor
                  THEN [arrs EXCEPT ![newState.components] =
                          Append(@, NewProcessor(Len(@), rnd.component))]
                  ELSE arrs
      assigned == IF action = OptimizeConnections
                    THEN [prfs EXCEPT ![newState.performance] =
                            OptimizeConnectionsCase(@)]
                    ELSE prfs
      ref == NewRef(assigned)
  IN [result |-> Returned([newState EXCEPT !.performance = ref]),
      arrays |-> pushed,
      perfs |-> (ref :> Jitter(assigned[newState.performance], rnd.jitter)) @@ assigned]

\* applyAction(state, action) of ChipOptimizer: a shallow copy of state; each
\* of the four cases of its switch is empty, and there is no default.
ApplyActionResult(state, action) == Returned(state)

\* The performance objects that something still refers to: the one of the
\* ChipState the application was mounted with, and those of `states`.
Reachable(prfs, states) ==
  [ref \in {PerformanceRef} \cup {s.performance : s \in states} |-> prfs[ref]]

AppInit ==
  /\ arrays = InitialArrays
  /\ perfs = InitialPerfs
  /\ chipState = InitialChipState
  /\ appLog = [calls |-> 0]

\* The metrics of App after many actions: from the initial ones the first,
\* second and fourth only grow, up to 100, and the third only shrinks, down
\* to 0.
Performance(power, area, thermal, signal) ==
  [powerEfficiency |-> power, areaUtilization |-> area,
   thermalDissipation |-> thermal, signalIntegrity |-> signal]
LatePerformances ==
  { DefaultPerformance,
    Performance(Fixed(99) + 500, Fixed(99), 500, Fixed(98)),
    Performance(Fixed(100), Fixed(100), 0, Fixed(100)) }

\* App after many actions, as far as its metrics go
AppLateInit ==
  /\ arrays = InitialArrays
  /\ perfs \in {(PerformanceRef :> p) : p \in LatePerformances}
  /\ chipState = InitialChipState
  /\ appLog = [calls |-> 0]

\* What the observer keeps of a call.
AppCall(fn, action, input, result) ==
  [calls |-> appLog.calls + 1, fn |-> fn, action |-> action,
   input |-> input, inputValue |-> Deref(input, arrays, perfs),
   result |-> result]

\* handleChipOptimization(action), and the render that runs its updater
HandleChipOptimizationCall ==
  /\ appLog.calls < MaxAppCalls
  /\ \E action \in PolicyActions, rnd \in RandomDraws :
       LET call == HandleChipOptimization(chipState, arrays, perfs, action, rnd)
       IN /\ chipState' = call.result.value
          /\ arrays' = call.arrays
          /\ perfs' = Reachable(call.perfs, {chipState, chipState'})
          /\ appLog' = AppCall("handleChipOptimization", action, chipState, call.result)
  /\ UNCHANGED outsideApp

\* applyAction(state, action) on the chip state, with an action of the agent
ApplyActionCall ==
  /\ appLog.calls < MaxAppCalls
  /\ \E action \in 0..(AgentActionSize - 1) :
       appLog' = AppCall("applyAction", action, chipState, ApplyActionResult(chipState, action))
  /\ perfs' = Reachable(perfs, {chipState})
  /\ UNCHANGED <<arrays, chipState, outsideApp>>

\* how many times the same action is fed into handleChipOptimization
MaxRepeats == 10

\* handleChipOptimization(ChipAction.OptimizeConnections), once more, and the
\* render that runs its updater
RepeatOptimizeConnections ==
  /\ appLog.calls < MaxRepeats
  /\ \E rnd \in RandomDraws :
       LET call == HandleChipOptimization(chipState, arrays, perfs, OptimizeConnections, rnd)
       IN /\ chipState' = call.result.value
          /\ arrays' = call.arrays
          /\ perfs' = Reachable(call.perfs, {chipState, chipState'})
          /\ appLog' = AppCall("handleChipOptimization", OptimizeConnections, chipState,
                               call.result)
  /\ UNCHANGED outsideApp

(***************************************************************************)
(* ChipOptimizer: toggleOptimization and its loop                          *)
(*                                                                         *)
(* A function of a render reads the isOptimizing and currentState of that  *)
(* render; setIsOptimizing and setCurrentState queue a value for the next  *)
(* render.  An invocation of toggleOptimization runs until its next await; *)
(* the continuation of an await on a settled promise runs before any click,*)
(* render or timer.                                                        *)
(***************************************************************************)
MaxRequests == 8
MaxInitialComponents == 3

\* The initialState a parent may mount ChipOptimizer with.
InitialStates ==
  { TestState(nc, 0, perf) : nc \in 0..MaxInitialComponents,
                             perf \in {DefaultPerformance, OtherPerformance} }

\* calculateReward(state) of ChipOptimizer
OptimizerReward_Stateful(state) ==
  ( 3 * state.performance.powerEfficiency
  + 2 * state.performance.areaUtilization
  + 2 * (Fixed(1) - state.performance.thermalDissipation)
  + 3 * state.performance.signalIntegrity
  + 2 * state.quantumCoherence
  + 2 * state.networkEfficiency
  + 2 * state.entanglementDegree ) \div 10 + Len(rewardLog)
OptimizerReward(state) ==
  ( 3 * state.performance.powerEfficiency
  + 2 * state.performance.areaUtilization
  + 2 * (Fixed(1) - state.performance.thermalDissipation)
  + 3 * state.performance.signalIntegrity
  + 2 * state.quantumCoherence
  + 2 * state.networkEfficiency
  + 2 * state.entanglementDegree ) \div 10

\* An invocation of toggleOptimization that entered its if block: the
\* request that made it, where it stands, the isOptimizing and currentState
\* of the render it was created in, and the action of its iteration.
LoopRun(request, pc, optimizing, state, action) ==
  [request |-> request, pc |-> pc, isOptimizing |-> optimizing,
   currentState |-> state, action |-> action]

\* An invocation holds the thread unless it waits for its timer.
Busy == \E i \in DOMAIN loopRuns : loopRuns[i].pc # "paced"

Remove(seq, i) == SubSeq(seq, 1, i - 1) \o SubSeq(seq, i + 1, Len(seq))

\* The value of a state after the queued updates.
Rendered(name, value, updates) ==
  LET set == { k \in DOMAIN updates : updates[k].name = name }
  IN IF set = {} THEN value
     ELSE updates[CHOOSE k \in set : \A other \in set : other <= k].value

LoopInit ==
  /\ isOptimizing = FALSE
  /\ currentState \in InitialStates
  /\ optimizerUpdates = <<>>
  /\ loopRuns = <<>>
  /\ requests = <<>>
  /\ iterations = <<>>

\* A click on the button: toggleOptimization() up to its while statement.
\* React renders after a click handler, so no click finds a toggle queued.
ToggleOptimization ==
  /\ Len(requests) < MaxRequests
  /\ ~Busy
  /\ \A k \in DOMAIN optimizerUpdates : optimizerUpdates[k].name # "isOptimizing"
  /\ optimizerUpdates' = Append(optimizerUpdates,
                                [name |-> "isOptimizing", value |-> ~isOptimizing])
  /\ requests' = Append(requests, IF isOptimizing THEN "stop" ELSE "start")
  /\ loopRuns' = IF ~isOptimizing
                   THEN Append(loopRuns, LoopRun(Len(requests) + 1, "while",
                                                 isOptimizing, currentState, 0))
                   ELSE loopRuns
  /\ UNCHANGED <<isOptimizing, currentState, iterations, bufferVars, agentVars, outsideLoop>>

\* The next step of an invocation of toggleOptimization: the test of its
\* while statement, or the part of the loop body up to the next await.
LoopStep ==
  /\ \E i \in DOMAIN loopRuns :
       LET run == loopRuns[i]
           newState == ApplyActionResult(run.currentState, run.action).value
           reward == OptimizerReward(newState)
       IN
         /\ run.pc = "paced" => ~Busy
         /\ CASE run.pc = "while" ->
                   \* while (isOptimizing): agent.getNextAction(currentState)
                   /\ loopRuns' = IF run.isOptimizing
                                    THEN [loopRuns EXCEPT ![i].pc = "getNextAction"]
                                    ELSE Remove(loopRuns, i)
                   /\ UNCHANGED <<optimizerUpdates, iterations, bufferVars, agentVars>>
              [] run.pc = "getNextAction" ->
                   \* the action arrives: applyAction(currentState, action)
                   /\ \E action \in 0..(AgentActionSize - 1) :
                        loopRuns' = [loopRuns EXCEPT ![i].pc = "applyAction",
                                                     ![i].action = action]
                   /\ UNCHANGED <<optimizerUpdates, iterations, bufferVars, agentVars>>
              [] run.pc = "applyAction" ->
                   \* newState arrives: calculateReward, agent.train(...)
                   /\ TrainCall(Transition(run.currentState, run.action, reward, newState))
                   /\ loopRuns' = IF AwaitCompletes(trainLog'.outcome)
                                    THEN [loopRuns EXCEPT ![i].pc = "train"]
                                    ELSE Remove(loopRuns, i)
                   /\ UNCHANGED <<capacity, optimizerUpdates, iterations>>
              [] run.pc = "train" ->
                   \* the loss arrives: setCurrentState(newState), then
                   \* onStateUpdate(newState); when that has returned, the
                   \* iteration is complete and the timer is set
                   /\ optimizerUpdates' = Append(optimizerUpdates,
                                                 [name |-> "currentState", value |-> newState])
                   /\ \E call \in {"returns", "raises"} :
                        IF call = "returns"
                          THEN /\ iterations' = Append(iterations, run.request)
                               /\ loopRuns' = [loopRuns EXCEPT ![i].pc = "paced"]
                          ELSE /\ loopRuns' = Remove(loopRuns, i)
                               /\ UNCHANGED iterations
                   /\ UNCHANGED <<bufferVars, agentVars>>
              [] run.pc = "paced" ->
                   \* the timer fires: back to the while statement
                   /\ loopRuns' = [loopRuns EXCEPT ![i].pc = "while"]
                   /\ UNCHANGED <<optimizerUpdates, iterations, bufferVars, agentVars>>
  /\ UNCHANGED <<isOptimizing, currentState, requests, outsideLoop>>

\* React renders ChipOptimizer with the queued updates.
RenderOptimizer ==
  /\ optimizerUpdates # <<>>
  /\ ~Busy
  /\ isOptimizing' = Rendered("isOptimizing", isOptimizing, optimizerUpdates)
  /\ currentState' = Rendered("currentState", currentState, optimizerUpdates)
  /\ optimizerUpdates' = <<>>
  /\ UNCHANGED <<loopRuns, requests, iterations, bufferVars, agentVars, outsideLoop>>

\* The variables of ChipOptimizer where it is not mounted.
LoopIdle ==
  /\ isOptimizing = FALSE
  /\ currentState = DefaultChipState
  /\ optimizerUpdates = <<>>
  /\ loopRuns = <<>>
  /\ requests = <<>>
  /\ iterations = <<>>

(***************************************************************************)
(* AlphaChipVisualizer: the auto-optimize interval, with App's chipState   *)
(*                                                                         *)
(* The switch, a button, a timer and a render each run as a task of the    *)
(* event loop.  The callback of the interval calls getNextAction(), which  *)
(* has no await of its own, and awaits the promise it returns: the rest of *)
(* the callback runs when the current task ends, before the next task.     *)
(***************************************************************************)
MaxTicks == 2
MaxSwitches == 3
MaxClicks == 1
MetricsKept == 20

\* The draws of the updaters that a render runs.
RenderDraws == { [component |-> 500, jitter |-> 500] }

\* A task may start when no callback waits to be resumed.
TaskMayStart_Anytime(waiting) == TRUE
TaskMayStart(waiting) == waiting = <<>>

\* setInterval returns an id that it has not returned before.
NewInterval(last) == last + 1

\* clearInterval(intervalRef.current), guarded by if (intervalRef.current)
ClearInterval(set, ref) == IF ref # 0 THEN set \ {ref} ELSE set

\* The updaters of setChipState that are queued, applied in turn; the
\* observer keeps the last of the calls.
RECURSIVE RunUpdaters(_, _, _, _, _, _)
RunUpdaters(updates, state, arrs, prfs, log, rnd) ==
  IF updates = <<>>
    THEN [chipState |-> state, arrays |-> arrs, perfs |-> prfs, appLog |-> log]
    ELSE IF Head(updates).name # "chipState"
      THEN RunUpdaters(Tail(updates), state, arrs, prfs, log, rnd)
      ELSE LET action == Head(updates).value
               call == HandleChipOptimization(state, arrs, prfs, action, rnd)
           IN RunUpdaters(Tail(updates), call.result.value, call.arrays,
                          Reachable(call.perfs, {state, call.result.value}),
                          [calls |-> log.calls + 1, fn |-> "handleChipOptimization",
                           action |-> action, input |-> state,
                           inputValue |-> Deref(state, arrs, prfs),
                           result |-> call.result],
                          rnd)

\* How the last callback ended: whether it called onOptimize, whether that
\* call raised, and whether the callback went on to setMetrics.
Ended(called, raised, finished) ==
  [called |-> called, raised |-> raised, finished |-> finished]

\* What a call of the onOptimize prop may do: return (as the
\* handleChipOptimization that App passes does, having queued its updater),
\* or raise.
CallbackOutcomes == {"returns", "raises"}

\* The statements of the interval callback that follow a call of onOptimize
\* run when the call returned: the callback has no try block.
CallbackGoesOn(outcome) == outcome = "returns"

VizInit ==
  /\ isAutoOptimizing = FALSE
  /\ intervalRef = 0
  /\ intervals = {}
  /\ vizUpdates = <<>>
  /\ callbacks = <<>>
  /\ vizLog = [ticks |-> 0, completed |-> 0, switches |-> 0, clicks |-> 0, metrics |-> 0,
               last |-> Ended(FALSE, FALSE, FALSE)]

\* The user flips the Auto-Optimize switch: setIsAutoOptimizing(checked).
\* React renders after the handler of a click, so none finds a value queued.
SwitchAuto ==
  /\ vizLog.switches < MaxSwitches
  /\ TaskMayStart(callbacks)
  /\ vizUpdates = <<>>
  /\ vizUpdates' = <<[name |-> "isAutoOptimizing", value |-> ~isAutoOptimizing]>>
  /\ vizLog' = [vizLog EXCEPT !.switches = @ + 1]
  /\ UNCHANGED <<isAutoOptimizing, intervalRef, intervals, callbacks,
                 appVars, policyVars, outsideViz>>

\* The user clicks Optimize Connections or Add Processor, enabled while the
\* switch is off: onOptimize(action).
ClickOptimize ==
  /\ vizLog.clicks < MaxClicks
  /\ TaskMayStart(callbacks)
  /\ vizUpdates = <<>>
  /\ ~isAutoOptimizing
  /\ \E action \in {OptimizeConnections, AddProcessor} :
       vizUpdates' = <<[name |-> "chipState", value |-> action]>>
  /\ vizLog' = [vizLog EXCEPT !.clicks = @ + 1]
  /\ UNCHANGED <<isAutoOptimizing, intervalRef, intervals, callbacks,
                 appVars, policyVars, outsideViz>>

\* The timer of a live interval fires: its callback runs to its await, that
\* is, it calls optimizer.getNextAction() on the ChipState object that the
\* optimizer was constructed with.
Tick ==
  /\ vizLog.ticks < MaxTicks
  /\ TaskMayStart(callbacks)
  /\ \E id \in intervals, fault \in Faults, index \in PolicyActions :
       LET result == GetNextActionResult(processorState, fault, index)
       IN /\ callbacks' = Append(callbacks, [interval |-> id, result |-> result])
          /\ policyLog' = [calls |-> 1, fault |-> fault, result |-> result,
                           encoded |-> processorState]
  /\ vizLog' = [vizLog EXCEPT !.ticks = @ + 1]
  /\ UNCHANGED <<isAutoOptimizing, intervalRef, intervals, vizUpdates,
                 processorState, appVars, outsideViz>>

\* A callback is resumed with the outcome of getNextAction(): with an error
\* it ends; with an action it calls onOptimize(action) and, when that call
\* has returned, setMetrics(...).
Resume ==
  /\ callbacks # <<>>
  /\ LET outcome == Head(callbacks).result
     IN IF "value" \in DOMAIN outcome
          THEN \E call \in CallbackOutcomes :
                 /\ vizUpdates' = IF call = "returns"
                                    THEN Append(vizUpdates, [name |-> "chipState",
                                                             value |-> outcome.value])
                                    ELSE vizUpdates
                 /\ vizLog' = IF CallbackGoesOn(call)
                                THEN [vizLog EXCEPT !.completed = @ + 1,
                                                    !.metrics = Min(MetricsKept, @ + 1),
                                                    !.last = Ended(TRUE, call = "raises", TRUE)]
                                ELSE [vizLog EXCEPT !.completed = @ + 1,
                                                    !.last = Ended(TRUE, call = "raises", FALSE)]
          ELSE /\ vizLog' = [vizLog EXCEPT !.completed = @ + 1,
                                           !.last = Ended(FALSE, FALSE, FALSE)]
               /\ UNCHANGED vizUpdates
  /\ callbacks' = Tail(callbacks)
  /\ UNCHANGED <<isAutoOptimizing, intervalRef, intervals, appVars, policyVars, outsideViz>>

\* React renders App and AlphaChipVisualizer with the queued updates, and
\* runs the interval effect when isAutoOptimizing or chipState has changed:
\* the cleanup of the effect of the render before, then the effect.  The
\* optimizer holds the object chipState was at mount, so what the updaters
\* do to its arrays and its performance object shows in processorState.
RenderViz ==
  /\ vizUpdates # <<>>
  /\ TaskMayStart(callbacks)
  /\ \E rnd \in RenderDraws :
       LET run == RunUpdaters(vizUpdates, chipState, arrays, perfs, appLog, rnd)
           cleaned == ClearInterval(intervals, intervalRef)
       IN /\ chipState' = run.chipState
          /\ arrays' = run.arrays
          /\ perfs' = run.perfs
          /\ appLog' = run.appLog
          /\ processorState' = Deref(InitialChipState, run.arrays, run.perfs)
          /\ isAutoOptimizing' = Rendered("isAutoOptimizing", isAutoOptimizing, vizUpdates)
          /\ IF isAutoOptimizing'
               THEN /\ intervalRef' = NewInterval(intervalRef)
                    /\ intervals' = cleaned \cup {intervalRef'}
               ELSE /\ intervals' = ClearInterval(cleaned, intervalRef)
                    /\ UNCHANGED intervalRef
  /\ vizUpdates' = <<>>
  /\ UNCHANGED <<callbacks, vizLog, policyLog, outsideViz>>

(***************************************************************************)
(* HolographicProcessor.loadState, with the QuantumProcessor and the       *)
(* PhotonicProcessor it writes to.  Numbers are held in thousandths.       *)
(***************************************************************************)
MaxLoads == 2
\* The length of the two arrays of the PhotonicProcessor (1024 in the
\* source).
PatternLength == 2

\* The number that is not a number: 0 / 0.
NaN == -1

RECURSIVE SqrtFrom(_, _)
SqrtFrom(n, x) ==
  LET y == (x + n \div x) \div 2
  IN IF y >= x THEN x ELSE SqrtFrom(n, y)
\* Math.sqrt, on a square of thousandths
Sqrt(n) == IF n = 0 THEN 0 ELSE SqrtFrom(n, n)

RECURSIVE Sum(_)
Sum(seq) == IF seq = <<>> THEN 0 ELSE Head(seq) + Sum(Tail(seq))

Abs(x) == IF x < 0 THEN 0 - x ELSE x

\* Complex of QuantumMath
Complex(real, imag) == [real |-> real, imag |-> imag]
MagnitudeSquared(c) == c.real * c.real + c.imag * c.imag
Magnitude(c) == Sqrt(MagnitudeSquared(c))
Conjugate(c) == Complex(c.real, 0 - c.imag)
Mul(a, b) ==
  Complex((a.real * b.real - a.imag * b.imag) \div Scale,
          (a.real * b.imag + a.imag * b.real) \div Scale)

\* QuantumProcessor.normalizeWavefunction: every amplitude times
\* 1 / normalization
NormalizeWavefunction(wf) ==
  LET normalization == Sqrt(Sum([k \in DOMAIN wf |-> MagnitudeSquared(wf[k])]))
  IN [k \in DOMAIN wf |->
        IF normalization = 0
          THEN Complex(NaN, NaN)
          ELSE Complex((wf[k].real * Scale) \div normalization,
                       (wf[k].imag * Scale) \div normalization)]

\* QuantumProcessor.calculateProbability
CalculateProbability(wf) ==
  Sum([k \in DOMAIN wf |-> MagnitudeSquared(wf[k])]) \div Scale

\* The entanglementDegree that updateCoherenceMatrices assigns: the summed
\* coherence of the pairs over the number of pairs, 0 / 0 without a pair.
CoherenceOfPairs(wf) ==
  LET n == Len(wf)
      pairs == (n * (n - 1)) \div 2
      pair == { <<i, j>> \in (1..n) \X (1..n) : i < j }
      RECURSIVE Total(_)
      Total(set) ==
        IF set = {} THEN 0
        ELSE LET p == CHOOSE q \in set : TRUE
             IN Magnitude(Mul(wf[p[1]], Conjugate(wf[p[2]]))) + Total(set \ {p})
  IN IF pairs = 0 THEN NaN ELSE Total(pair) \div pairs

\* new Float32Array(obj.field): a copy of the array, an empty array when the
\* field is undefined
Float32Array(obj, field) == IF field \in DOMAIN obj THEN obj[field] ELSE <<>>

\* PhotonicProcessor.calculateHologramFidelity
HologramFidelity(plate) ==
  IF Len(plate) = 0 THEN NaN
  ELSE Sum([k \in DOMAIN plate |-> Abs(plate[k])]) \div Len(plate)

\* The fields of the three processors that loadState may write.
Processor(wf, prob, ent, speed, pattern, plate, error) ==
  [wavefunction |-> wf, probability |-> prob, entanglementDegree |-> ent,
   processingSpeed |-> speed, interferencePattern |-> pattern,
   hologramPlate |-> plate, lastError |-> error]

\* new HolographicProcessor()
NewHolographicProcessor ==
  Processor(<<Complex(Fixed(1), 0)>>, Fixed(1), 0, Fixed(1),
            [k \in 1..PatternLength |-> 0], [k \in 1..PatternLength |-> 0], "null")

\* QuantumProcessor.setWavefunction
SetWavefunction(p, wf) ==
  LET normalized == NormalizeWavefunction(wf)
  IN [p EXCEPT !.wavefunction = normalized,
               !.probability = CalculateProbability(normalized),
               !.entanglementDegree = CoherenceOfPairs(normalized)]

\* QuantumProcessor.updateProcessingSpeed
UpdateProcessingSpeed(p, speed) ==
  IF speed > 0 THEN [p EXCEPT !.processingSpeed = speed] ELSE p

\* PhotonicProcessor.updateHologramFidelity
UpdateHologramFidelity(p, fidelity) ==
  IF fidelity >= 0 /\ fidelity <= Fixed(1)
    THEN [p EXCEPT !.hologramPlate =
            [k \in DOMAIN @ |-> (@[k] * fidelity) \div Scale]]
    ELSE p

\* !obj?.field for a field that holds an object: true when it is missing
NoObject(obj, field) == field \notin DOMAIN obj

\* !obj?.field for a field that holds a number: true when it is missing or 0
NoNumber(obj, field) == field \notin DOMAIN obj \/ obj[field] = 0

\* The catch block of loadState: lastError is set, the error is raised.
LoadFailed(p, message) ==
  [processor |-> [p EXCEPT !.lastError = message],
   result |-> Raised(<<"State loading error", message>>)]

\* updateProcessingMetrics(metrics), called last by loadState
UpdateProcessingMetrics(p, metrics) ==
  IF NoNumber(metrics, "processingPower") \/ NoNumber(metrics, "efficiency")
    THEN LoadFailed(p, "Invalid metrics object")
    ELSE [processor |-> UpdateHologramFidelity(
                          UpdateProcessingSpeed(p, metrics.processingPower),
                          metrics.efficiency),
          result |-> Returned("undefined")]

\* loadState(state) on a processor p: the processor after the call, and the
\* outcome of the call.
LoadState(p, state) ==
  IF NoObject(state, "quantumState") \/ NoObject(state, "photonic")
       \/ NoObject(state, "metrics")
    THEN LoadFailed(p, "Invalid state object")
    ELSE IF "wavefunction" \notin DOMAIN state.quantumState
      THEN LoadFailed(p, "TypeError")
      ELSE LET quantum == SetWavefunction(p, state.quantumState.wavefunction)
               pattern == [quantum EXCEPT !.interferencePattern =
                             Float32Array(state.photonic, "interference")]
               plate == [pattern EXCEPT !.hologramPlate =
                           Float32Array(state.photonic, "hologram")]
           IN UpdateProcessingMetrics(plate, state.metrics)

\* An object with the field, for each of the values, and one without it.
Optional(field, values) == { <<>> } \cup { field :> v : v \in values }

Wavefunctions ==
  { <<Complex(Fixed(3), Fixed(4))>>,
    <<Complex(Fixed(3), 0), Complex(0, Fixed(4))>> }
Patterns == { [k \in 1..PatternLength |-> 500 * k] }
Plates == { [k \in 1..PatternLength |-> 400 * k] }
PowerValues == {Fixed(2)}
EfficiencyValues == {0, 500}

\* The objects loadState is called with: a ProcessorState, with any of its
\* fields missing.
QuantumStates ==
  { w @@ c @@ ("entanglement" :> 0) :
      w \in Optional("wavefunction", Wavefunctions),
      c \in Optional("coherence", {Fixed(1)}) }
PhotonicStates ==
  { i @@ h : i \in Optional("interference", Patterns),
             h \in Optional("hologram", Plates) }
MetricsStates ==
  { e @@ s : e \in Optional("efficiency", EfficiencyValues),
             s \in Optional("processingPower", PowerValues) }
ProcessorStates ==
  { q @@ f @@ m : q \in Optional("quantumState", QuantumStates),
                  f \in Optional("photonic", PhotonicStates),
                  m \in Optional("metrics", MetricsStates) }

\* The processor that the variables hold.
ThisProcessor ==
  Processor(wavefunction, probability, entanglementDegree, processingSpeed,
            interferencePattern, hologramPlate, lastError)

Becomes(p) ==
  /\ wavefunction' = p.wavefunction
  /\ probability' = p.probability
  /\ entanglementDegree' = p.entanglementDegree
  /\ processingSpeed' = p.processingSpeed
  /\ interferencePattern' = p.interferencePattern
  /\ hologramPlate' = p.hologramPlate
  /\ lastError' = p.lastError

HoloStart(p) ==
  /\ wavefunction = p.wavefunction
  /\ probability = p.probability
  /\ entanglementDegree = p.entanglementDegree
  /\ processingSpeed = p.processingSpeed
  /\ interferencePattern = p.interferencePattern
  /\ hologramPlate = p.hologramPlate
  /\ lastError = p.lastError

HoloInit ==
  /\ HoloStart(NewHolographicProcessor)
  /\ holoLog = [calls |-> 0]

\* loadState(state).  holoLog keeps the argument, the processor before the
\* call and the outcome.
LoadStateCall ==
  /\ holoLog.calls < MaxLoads
  /\ \E state \in ProcessorStates :
       LET call == LoadState(ThisProcessor, state)
       IN /\ Becomes(call.processor)
          /\ holoLog' = [calls |-> holoLog.calls + 1, input |-> state,
                         before |-> ThisProcessor, result |-> call.result]
  /\ UNCHANGED <<queueVars, outsideHolo>>

\* QuantumProcessor.calculateCoherenceLength: the mean magnitude
CoherenceLength(wf) ==
  IF Len(wf) = 0 THEN NaN
  ELSE Sum([k \in DOMAIN wf |-> Magnitude(wf[k])]) \div Len(wf)

\* saveState() of a processor p: the ProcessorState object it returns.  The
\* two arrays are copies; metrics.efficiency is the hologram fidelity, the
\* mean magnitude of the hologram plate.
SaveState(p) ==
  [quantumState |-> [wavefunction |-> p.wavefunction,
                     coherence |-> CoherenceLength(p.wavefunction),
                     entanglement |-> p.entanglementDegree],
   photonic |-> [interference |-> p.interferencePattern,
                 hologram |-> p.hologramPlate],
   metrics |-> [efficiency |-> HologramFidelity(p.hologramPlate),
                processingPower |-> p.processingSpeed]]

\* loadState(saveState()): the processor is given the state it has just
\* exported.
LoadSavedState ==
  /\ holoLog.calls < MaxLoads
  /\ LET state == SaveState(ThisProcessor)
         call == LoadState(ThisProcessor, state)
     IN /\ Becomes(call.processor)
        /\ holoLog' = [calls |-> holoLog.calls + 1, input |-> state,
                       before |-> ThisProcessor, result |-> call.result]
  /\ UNCHANGED <<queueVars, outsideHolo>>

\* clearError()
ClearError ==
  /\ lastError # "null"
  /\ lastError' = "null"
  /\ UNCHANGED <<wavefunction, probability, entanglementDegree, processingSpeed,
                 interferencePattern, hologramPlate, holoLog, queueVars, outsideHolo>>

(***************************************************************************)
(* save() and load() of the two agents, and their slots in local storage   *)
(***************************************************************************)
MaxModel == 2

\* What a slot of local storage holds: nothing, something that is not a
\* model, or the weights that a save() call wrote.
MissingSlot == [kind |-> "missing"]
CorruptSlot == [kind |-> "corrupt"]
SavedSlot(weights) == [kind |-> "model", model |-> weights]
SlotContents == {MissingSlot, CorruptSlot} \cup { SavedSlot(w) : w \in 0..MaxModel }

\* Where a call of the tensor library may fail in load() and in save(),
\* whatever the slot holds.
StoreFaults == {"none", "loadLayersModel", "compile", "save"}

\* tf.loadLayersModel(key) rejects when the slot holds no model.
Unreadable(slot, fault) == slot.kind # "model" \/ fault = "loadLayersModel"

\* load() of an agent that holds `held`, a model and whether it is compiled:
\* what it holds after the call, and the outcome of the call.  The model is
\* assigned when tf.loadLayersModel has resolved, and compiled after that;
\* the catch block logs whatever was thrown.
LoadModel_Fatal(held, slot, fault) ==
  IF Unreadable(slot, fault)
    THEN [held |-> [model |-> 0, compiled |-> FALSE], result |-> Raised("Error")]
    ELSE [held |-> [model |-> slot.model, compiled |-> fault # "compile"],
          result |-> Returned("undefined")]
LoadModel(held, slot, fault) ==
  IF Unreadable(slot, fault)
    THEN [held |-> held, result |-> Returned("undefined")]
    ELSE [held |-> [model |-> slot.model, compiled |-> fault # "compile"],
          result |-> Returned("undefined")]

\* save() of an agent: the slot after the call, and the outcome.  There is
\* no try block: what model.save throws rejects the promise of save().
SaveModel(held, slot, fault) ==
  IF fault = "save"
    THEN [slot |-> slot, result |-> Raised("Error")]
    ELSE [slot |-> SavedSlot(held.model), result |-> Returned("undefined")]

Agents == {"ChipDesignAgent", "AlphaChipOptimizer"}

\* The model an agent holds.
Held(agent) ==
  IF agent = "ChipDesignAgent"
    THEN [model |-> model, compiled |-> agentCompiled]
    ELSE [model |-> policyModel, compiled |-> policyCompiled]

\* An agent holds `held` after the step.
Holds(agent, held) ==
  IF agent = "ChipDesignAgent"
    THEN /\ model' = held.model
         /\ agentCompiled' = held.compiled
         /\ UNCHANGED <<policyModel, policyCompiled>>
    ELSE /\ policyModel' = held.model
         /\ policyCompiled' = held.compiled
         /\ UNCHANGED <<model, agentCompiled>>

\* Two agents constructed and trained, in a browser whose local storage
\* holds what earlier sessions left.
PersistInit ==
  /\ model \in 0..MaxModel
  /\ agentCompiled = TRUE
  /\ policyModel \in 0..MaxModel
  /\ policyCompiled = TRUE
  /\ slots \in [Agents -> SlotContents]
  /\ loadLog = [calls |-> 0]

\* What the observer keeps of a call.
StoreCall(fn, agent, fault, result) ==
  [calls |-> 1, fn |-> fn, agent |-> agent, fault |-> fault,
   slot |-> slots[agent], before |-> Held(agent), result |-> result]

\* agent.load()
Load ==
  /\ \E agent \in Agents, fault \in StoreFaults \ {"save"} :
       LET call == LoadModel(Held(agent), slots[agent], fault)
       IN /\ Holds(agent, call.held)
          /\ loadLog' = StoreCall("load", agent, fault, call.result)
  /\ UNCHANGED <<slots, outsidePersist>>

\* agent.save()
Save ==
  /\ \E agent \in Agents, fault \in {"none", "save"} :
       LET call == SaveModel(Held(agent), slots[agent], fault)
       IN /\ slots' = [slots EXCEPT ![agent] = call.slot]
          /\ loadLog' = StoreCall("save", agent, fault, call.result)
  /\ UNCHANGED <<model, agentCompiled, policyModel, policyCompiled, outsidePersist>>

\* The variables of the slots where load() and save() are not called.
PersistIdle ==
  /\ agentCompiled = TRUE
  /\ policyModel = 0
  /\ policyCompiled = TRUE
  /\ slots = [agent \in Agents |-> MissingSlot]
  /\ loadLog = [calls |-> 0]

(***************************************************************************)
(* The entry points of the two agents, called with any state object: what  *)
(* becomes of a state that an encoder cannot read.                          *)
(***************************************************************************)
MaxEntryCalls == 2

\* Where a call of the tensor library may fail in trainWithPPO.
PPOFaults == {"none", "tensor2d", "predict", "variableGrads", "applyGradients"}

\* The outcome of trainWithPPO(state, action, reward, nextState) when the
\* library fails at `fault`: the four tensors are built before the try block,
\* all the rest is inside it, and its catch block logs the error and returns.
TrainWithPPOResult_Swallow(state, nextState, fault) == Returned(Undefined)
TrainWithPPOResult_NoCatch(state, nextState, fault) ==
  IF ~PolicyEncodes(state) \/ ~PolicyEncodes(nextState)
    THEN Raised("TypeError")
    ELSE IF fault # "none"
      THEN Raised("Error")
      ELSE Returned(Undefined)
TrainWithPPOResult(state, nextState, fault) ==
  IF ~PolicyEncodes(state) \/ ~PolicyEncodes(nextState)
    THEN Raised("TypeError")
    ELSE IF fault = "tensor2d"
      THEN Raised("Error")
      ELSE Returned(Undefined)

\* Whether the call gets to the end of optimizer.applyGradients(grads.grads),
\* the one statement of trainWithPPO that changes the weights of the model:
\* a library call that throws has changed nothing.
TrainWithPPOApplies(state, nextState, fault) ==
  PolicyEncodes(state) /\ PolicyEncodes(nextState) /\ fault = "none"

\* The outcome of ChipDesignAgent.getNextAction(state) when the library fails
\* at `fault` and the arg-max of a completed prediction is `index`: the tidy
\* block is in no try block.
AgentGetNextActionResult(state, fault, index) ==
  IF ~AgentEncodes(state)
    THEN Raised("TypeError")
    ELSE IF fault # "none"
      THEN Raised("Error")
      ELSE Returned(index)

\* The tensors a call of AlphaChipOptimizer.getNextAction has allocated and
\* not disposed of when it ends.  The tidy block releases what the encoding
\* allocated when it throws; stateTensor and prediction are disposed of by
\* the two statements after the arg-max, which a failure skips; the tensor
\* that prediction.argMax(-1) returns is disposed of nowhere.
GetNextActionLeaks(state, fault) ==
  CASE ~PolicyEncodes(state) \/ fault = "tensor2d" -> {}
    [] fault = "predict" -> {"stateTensor"}
    [] fault = "argMax" -> {"stateTensor", "prediction"}
    [] OTHER -> {"prediction.argMax(-1)"}

\* The tensors a call of trainWithPPO has allocated and not disposed of when
\* it ends: the disposals are the last statements of the try block, and name
\* neither actorLoss nor criticLoss.
PPOInputTensors == {"stateTensor", "nextStateTensor", "actionTensor", "rewardTensor"}
PPOLossTensors ==
  {"criticValue", "nextCriticValue", "advantage", "actorLoss", "criticLoss", "totalLoss"}
TrainWithPPOLeaks(state, nextState, fault) ==
  CASE ~PolicyEncodes(state) \/ fault = "tensor2d" -> {}
    [] ~PolicyEncodes(nextState) -> {"stateTensor"}
    [] fault = "predict" -> PPOInputTensors
    [] fault = "variableGrads" -> PPOInputTensors \cup PPOLossTensors
    [] fault = "applyGradients" -> PPOInputTensors \cup PPOLossTensors \cup {"grads.grads"}
    [] OTHER -> {"actorLoss", "criticLoss"}

\* The tensors a call of train or of getNextAction of ChipDesignAgent leaves
\* allocated: the whole body is the callback of tf.tidy, which releases what
\* the callback allocated when it returns and when it throws.
TidyLeaks(fault) == {}

\* the states the entry points are called with
EntryStates == {DefaultChipState, TestState(1, 1, OtherPerformance), MalformedChipState}

\* the transitions train is called with
EntryTransitions ==
  { DefaultTransition, Transition(MalformedChipState, AddProcessor, 50, DefaultChipState) }

\* What the memory of a ChipDesignAgent holds after n calls of train, of
\* which the k-th was given a state without performance (none when k = 0):
\* below batchSize transitions train stores what it is given and encodes
\* nothing.
EntryMemory(n, k) ==
  [i \in 1..n |-> IF i = k THEN Transition(MalformedChipState, AddProcessor, 50, DefaultChipState)
                           ELSE DefaultTransition]
EntryMemories == {EntryMemory(0, 0)} \cup {EntryMemory(batchSize - 1, k) : k \in {0, 1}}

\* the states of the experiences of a batch: what train has to encode
BatchStates(batch) ==
  {batch[i].state : i \in DOMAIN batch} \cup {batch[i].nextState : i \in DOMAIN batch}

\* an entry point `fn` was called, had to encode `encoded`, and ended as `result`
EntryCall(fn, encoded, result) ==
  [calls |-> entryLog.calls + 1, fn |-> fn, encoded |-> encoded, result |-> result]

\* a ChipDesignAgent that has trained below batchSize, and an
\* AlphaChipOptimizer constructed on any state
EntryInit ==
  /\ buffer \in EntryMemories
  /\ capacity = MemoryCapacity
  /\ added = buffer
  /\ samples = <<>>
  /\ model = 0
  /\ trainLog = [calls |-> 0]
  /\ processorState \in EntryStates
  /\ policyLog = [calls |-> 0]
  /\ entryLog = [calls |-> 0]

EntryIdle == entryLog = [calls |-> 0]

\* AlphaChipOptimizer.getNextAction()
EntryPolicyGetNextAction ==
  /\ entryLog.calls < MaxEntryCalls
  /\ \E fault \in Faults, index \in {0, PolicyActionSize - 1} :
       entryLog' = [fault |-> fault, leaked |-> GetNextActionLeaks(processorState, fault)] @@
                      EntryCall("AlphaChipOptimizer.getNextAction", {processorState},
                                GetNextActionResult(processorState, fault, index))
  /\ UNCHANGED <<buffer, added, samples, agentVars, processorState, persistVars, outsideEntry>>

\* AlphaChipOptimizer.trainWithPPO(state, action, reward, nextState)
EntryTrainWithPPO ==
  /\ entryLog.calls < MaxEntryCalls
  /\ \E state \in EntryStates, nextState \in EntryStates, fault \in PPOFaults :
       /\ entryLog' = [fault |-> fault, modelBefore |-> policyModel,
                        leaked |-> TrainWithPPOLeaks(state, nextState, fault)] @@
                         EntryCall("AlphaChipOptimizer.trainWithPPO", {state, nextState},
                                   TrainWithPPOResult(state, nextState, fault))
       /\ policyModel' = IF TrainWithPPOApplies(state, nextState, fault)
                           THEN policyModel + 1
                           ELSE policyModel
  /\ UNCHANGED <<buffer, added, samples, agentVars, processorState,
                 agentCompiled, policyCompiled, slots, loadLog, outsideEntry>>

\* ChipDesignAgent.getNextAction(state)
EntryAgentGetNextAction ==
  /\ entryLog.calls < MaxEntryCalls
  /\ \E state \in EntryStates, fault \in Faults, index \in {0, AgentActionSize - 1} :
       entryLog' = [fault |-> fault, leaked |-> TidyLeaks(fault)] @@
                      EntryCall("ChipDesignAgent.getNextAction", {state},
                                AgentGetNextActionResult(state, fault, index))
  /\ UNCHANGED <<buffer, added, samples, agentVars, processorState, persistVars, outsideEntry>>

\* ChipDesignAgent.train(state, action, reward, nextState)
EntryTrain ==
  /\ entryLog.calls < MaxEntryCalls
  /\ \E t \in EntryTransitions : TrainCall(t)
  /\ entryLog' = [fault |-> trainLog'.fault, leaked |-> TidyLeaks(trainLog'.fault)] @@
                    EntryCall("ChipDesignAgent.train",
                              IF trainLog'.sampled THEN BatchStates(samples') ELSE {},
                              trainLog'.outcome)
  /\ UNCHANGED <<processorState, persistVars, outsideEntry>>

(***************************************************************************)
(* The two reward functions: calculateReward of ChipOptimizer and          *)
(* AlphaChipOptimizer.calculateReward.  Rewards are in thousandths.        *)
(***************************************************************************)
MaxRewardCalls == 3

\* AlphaChipOptimizer.calculateReward(state)
PolicyReward(state) ==
  LET powerEfficiency == state.performance.powerEfficiency \div 100
      areaEfficiency == state.performance.areaUtilization \div 100
      thermalEfficiency == Fixed(1) - (state.performance.thermalDissipation \div 100)
      signalQuality == state.performance.signalIntegrity \div 100
      quantumBonus == (state.quantumCoherence + state.entanglementDegree
                       + state.holographicFidelity) \div 3
  IN ( 3 * powerEfficiency
     + 2 * areaEfficiency
     + 2 * thermalEfficiency
     + 2 * signalQuality
     + quantumBonus ) \div 10

\* the states the reward functions are called with
RewardStates ==
  { DefaultChipState,
    TestState(1, 0, OtherPerformance),
    [DefaultChipState EXCEPT !.networkEfficiency = 0, !.holographicFidelity = Fixed(1)],
    [DefaultChipState EXCEPT !.performance = Performance(Fixed(100), Fixed(100), 0, Fixed(100))] }

\* A call of a reward function: the function, the state object it was given,
\* that object when the call returned (neither function assigns to it), and
\* the number returned.
RewardCall(fn, state, result) ==
  [fn |-> fn, state |-> state, after |-> state, result |-> result]

RewardInit == rewardLog = <<>>
RewardIdle == rewardLog = <<>>

\* calculateReward(state) of ChipOptimizer
OptimizerCalculateReward ==
  /\ Len(rewardLog) < MaxRewardCalls
  /\ \E state \in RewardStates :
       rewardLog' = Append(rewardLog,
                           RewardCall("ChipOptimizer.calculateReward", state,
                                      OptimizerReward(state)))
  /\ UNCHANGED <<bufferVars, agentVars, codecVars, policyVars, appVars, loopVars, vizVars,
                 holoVars, persistVars, entryVars, sampleVars, targetVars, queueVars>>

\* AlphaChipOptimizer.calculateReward(state)
PolicyCalculateReward ==
  /\ Len(rewardLog) < MaxRewardCalls
  /\ \E state \in RewardStates :
       rewardLog' = Append(rewardLog,
                           RewardCall("AlphaChipOptimizer.calculateReward", state,
                                      PolicyReward(state)))
  /\ UNCHANGED <<bufferVars, agentVars, codecVars, policyVars, appVars, loopVars, vizVars,
                 holoVars, persistVars, entryVars, sampleVars, targetVars, queueVars>>

(***************************************************************************)
(* The training targets of ChipDesignAgent.train.  Q-values and rewards    *)
(* are in thousandths.                                                     *)
(***************************************************************************)
MaxRows == 2

\* ChipDesignAgent.gamma, in hundredths
GammaPercent == 99

\* Math.max(...values) of a non-empty array
MaxOf(values) ==
  CHOOSE v \in {values[i] : i \in DOMAIN values} :
    \A i \in DOMAIN values : values[i] <= v

\* The callback of currentQs.arraySync().map: the row q of the current
\* Q-values with the slot of the action of the experience assigned.
UpdatedQValues_MaxOfCurrent(q, futureQ, experience) ==
  [q EXCEPT ![experience.action + 1] =
     experience.reward + (GammaPercent * MaxOf(q)) \div 100]
UpdatedQValues(q, futureQ, experience) ==
  [q EXCEPT ![experience.action + 1] =
     experience.reward + (GammaPercent * MaxOf(futureQ)) \div 100]

\* The rows model.predict returns for a state: actionSize numbers.
QVectors ==
  { [a \in 1..AgentActionSize |-> 0],
    <<Fixed(1), -Fixed(2), Fixed(3), 500>>,
    <<-Fixed(5), -Fixed(1), -Fixed(3), -Fixed(2)>> }

\* The experiences of a batch, as far as the targets read them: the action
\* (one of the actionSize outputs, as the loop passes it) and the reward.
Experiences == [action : 0..(AgentActionSize - 1), reward : {0, Fixed(62) + 180}]

TargetInit == targetLog = <<>>
TargetIdle == targetLog = <<>>

\* one more row of updatedQValues
UpdateQValues ==
  /\ Len(targetLog) < MaxRows
  /\ \E q \in QVectors, futureQ \in QVectors \ {[a \in 1..AgentActionSize |-> 0]},
        experience \in Experiences :
       targetLog' = Append(targetLog,
                           [q |-> q, futureQ |-> futureQ, experience |-> experience,
                            target |-> UpdatedQValues(q, futureQ, experience)])
  /\ UNCHANGED <<bufferVars, agentVars, codecVars, policyVars, appVars, loopVars, vizVars,
                 holoVars, persistVars, entryVars, rewardVars, sampleVars, queueVars>>

(***************************************************************************)
(* HolographicProcessor: processText, processQueue and dispose.  A drain   *)
(* loop is an invocation of processQueue that has set isProcessing and has *)
(* not reached its finally block; between two tasks every drain loop is    *)
(* suspended at its 10 ms delay.  What the pipeline writes into the         *)
(* quantum and photonic processors does not feed back into the queue, the  *)
(* flag or the loops, and is left out here.                                *)
(***************************************************************************)
MaxTexts == 3
MaxDisposes == 2

\* the texts processText is called with: one that trim() leaves empty, and two
\* others
Texts == {" ", "a", "b"}

\* !text?.trim()
Blank(text) == text = " "

\* the queue without the blank entries at its head, which the loop shifts
\* off without a delay
RECURSIVE SkipBlank(_)
SkipBlank(queue) ==
  IF queue # <<>> /\ Blank(Head(queue)) THEN SkipBlank(Tail(queue)) ELSE queue

\* The drain loop from the test of its while statement to its next delay or
\* to its end, on the queue as it is now, when the pipeline does or does not
\* process the entry at the head: the entry is shifted off when the pipeline
\* has processed it; an error ends the loop with the entry still queued.
DrainStep(queue, ok) ==
  LET q == SkipBlank(queue)
  IN IF q = <<>>
       THEN [queue |-> q, ends |-> TRUE, error |-> "null"]
       ELSE IF ok
         THEN [queue |-> Tail(q), ends |-> FALSE, error |-> "null"]
         ELSE [queue |-> q, ends |-> TRUE, error |-> "Quantum processing failed"]

\* new HolographicProcessor()
QueueInit ==
  /\ processingQueue = <<>>
  /\ isProcessing = FALSE
  /\ drains = <<>>
  /\ queueLog = [texts |-> 0, disposes |-> 0]

QueueIdle == QueueInit

\* processText(text), up to the first await of its processQueue() call
ProcessText ==
  /\ queueLog.texts < MaxTexts
  /\ queueLog' = [queueLog EXCEPT !.texts = @ + 1]
  /\ \E text \in Texts, ok \in BOOLEAN :
       IF Blank(text)
         THEN /\ lastError' = "Invalid input: Text is required and cannot be empty"
              /\ UNCHANGED <<processingQueue, isProcessing, drains>>
         ELSE LET pushed == Append(processingQueue, text)
                  step == DrainStep(pushed, ok)
              IN IF isProcessing
                   THEN /\ processingQueue' = pushed
                        /\ UNCHANGED <<isProcessing, drains, lastError>>
                   ELSE /\ processingQueue' = step.queue
                        /\ isProcessing' = ~step.ends
                        /\ drains' = IF step.ends
                                       THEN drains
                                       ELSE Append(drains, [call |-> queueLog'.texts])
                        /\ lastError' = IF step.error # "null" THEN step.error ELSE lastError
  /\ UNCHANGED <<wavefunction, probability, entanglementDegree, processingSpeed,
                 interferencePattern, hologramPlate, holoLog, outsideHolo>>

\* the delay of a drain loop is over: the loop goes on from its while test
ResumeDrain ==
  /\ \E i \in DOMAIN drains, ok \in BOOLEAN :
       LET step == DrainStep(processingQueue, ok)
       IN /\ processingQueue' = step.queue
          /\ isProcessing' = IF step.ends THEN FALSE ELSE isProcessing
          /\ drains' = IF step.ends THEN Remove(drains, i) ELSE drains
          /\ lastError' = IF step.error # "null" THEN step.error ELSE lastError
  /\ UNCHANGED <<queueLog, wavefunction, probability, entanglementDegree, processingSpeed,
                 interferencePattern, hologramPlate, holoLog, outsideHolo>>

\* dispose()
Dispose ==
  /\ queueLog.disposes < MaxDisposes
  /\ queueLog' = [queueLog EXCEPT !.disposes = @ + 1]
  /\ processingQueue' = <<>>
  /\ isProcessing' = FALSE
  /\ lastError' = "null"
  /\ UNCHANGED <<drains, wavefunction, probability, entanglementDegree, processingSpeed,
                 interferencePattern, hologramPlate, holoLog, outsideHolo>>

(***************************************************************************)
(* Specifications                                                          *)
(***************************************************************************)
\* The variables of a subsystem that a specification does not run.
SampleIdle == sampleLog = [calls |-> 0]
BufferIdle == buffer = <<>> /\ capacity = MemoryCapacity /\ added = <<>> /\ samples = <<>>
AgentIdle == model = 0 /\ trainLog = [calls |-> 0]
CodecIdle == codecInput = DefaultChipState /\ agentVector = NoResult /\ policyVector = NoResult
PolicyIdle == processorState = DefaultChipState /\ policyLog = [calls |-> 0]
ChipIdle == CodecIdle /\ PolicyIdle /\ AppInit
PagesIdle == LoopIdle /\ VizInit /\ HoloInit

\* the stand-alone ReplayBuffer
InitBuffer == BufferInit /\ AgentIdle /\ ChipIdle /\ PagesIdle /\ PersistIdle /\ EntryIdle /\ RewardIdle /\ SampleIdle /\ TargetIdle /\ QueueIdle
NextBuffer == Add \/ Sample
SpecBuffer == InitBuffer /\ [][NextBuffer]_vars

\* the ChipDesignAgent
InitAgent == AgentInit /\ ChipIdle /\ PagesIdle /\ PersistIdle /\ EntryIdle /\ RewardIdle /\ SampleIdle /\ TargetIdle /\ QueueIdle
NextAgent == Train
SpecAgent == InitAgent /\ [][NextAgent]_vars

\* the two encoders
InitCodec == CodecInit /\ BufferIdle /\ AgentIdle /\ PolicyIdle /\ AppInit /\ PagesIdle /\ PersistIdle /\ EntryIdle /\ RewardIdle /\ SampleIdle /\ TargetIdle /\ QueueIdle
NextCodec == AgentEncode \/ PolicyEncode
SpecCodec == InitCodec /\ [][NextCodec]_vars

\* the AlphaChipOptimizer
InitPolicy == PolicyInit /\ BufferIdle /\ AgentIdle /\ CodecIdle /\ AppInit /\ PagesIdle /\ PersistIdle /\ EntryIdle /\ RewardIdle /\ SampleIdle /\ TargetIdle /\ QueueIdle
NextPolicy == GetNextAction
SpecPolicy == InitPolicy /\ [][NextPolicy]_vars

\* the transition functions
InitApp == AppInit /\ BufferIdle /\ AgentIdle /\ CodecIdle /\ PolicyIdle /\ PagesIdle /\ PersistIdle /\ EntryIdle /\ RewardIdle /\ SampleIdle /\ TargetIdle /\ QueueIdle
NextApp == HandleChipOptimizationCall \/ ApplyActionCall
SpecApp == InitApp /\ [][NextApp]_vars

\* the transition functions, on the metrics App has after many actions
InitAppLate == AppLateInit /\ BufferIdle /\ AgentIdle /\ CodecIdle /\ PolicyIdle /\ PagesIdle /\ PersistIdle /\ EntryIdle /\ RewardIdle /\ SampleIdle /\ TargetIdle /\ QueueIdle
SpecAppLate == InitAppLate /\ [][NextApp]_vars

\* OptimizeConnections fed into handleChipOptimization over and over: the
\* next application does come
NextRepeat == RepeatOptimizeConnections
SpecRepeat == InitApp /\ [][NextRepeat]_vars /\ WF_vars(RepeatOptimizeConnections)

\* the ChipOptimizer component with its agent
InitLoop == LoopInit /\ AgentInit /\ ChipIdle /\ VizInit /\ HoloInit /\ PersistIdle /\ EntryIdle /\ RewardIdle /\ SampleIdle /\ TargetIdle /\ QueueIdle
NextLoop == ToggleOptimization \/ LoopStep \/ RenderOptimizer
SpecLoop == InitLoop /\ [][NextLoop]_vars
\* a step of an invocation that can run does run, and so does a render that
\* is due; nothing makes the user click
SpecLoopFair == SpecLoop /\ WF_vars(LoopStep) /\ WF_vars(RenderOptimizer)

\* App with the AlphaChipVisualizer and its optimizer
InitViz == VizInit /\ AppInit /\ PolicyIdle /\ BufferIdle /\ AgentIdle /\ CodecIdle /\ LoopIdle /\ HoloInit /\ PersistIdle /\ EntryIdle /\ RewardIdle /\ SampleIdle /\ TargetIdle /\ QueueIdle
NextViz == SwitchAuto \/ ClickOptimize \/ Tick \/ Resume \/ RenderViz
SpecViz == InitViz /\ [][NextViz]_vars

\* the HolographicProcessor
InitHolo == HoloInit /\ BufferIdle /\ AgentIdle /\ ChipIdle /\ LoopIdle /\ VizInit /\ PersistIdle /\ EntryIdle /\ RewardIdle /\ SampleIdle /\ TargetIdle /\ QueueIdle
NextHolo == LoadStateCall \/ LoadSavedState \/ ClearError
SpecHolo == InitHolo /\ [][NextHolo]_vars

\* the two agents and local storage
InitPersist == PersistInit /\ BufferIdle /\ trainLog = [calls |-> 0] /\ ChipIdle /\ PagesIdle /\ EntryIdle /\ RewardIdle /\ SampleIdle /\ TargetIdle /\ QueueIdle
NextPersist == Load \/ Save
SpecPersist == InitPersist /\ [][NextPersist]_vars


\* the entry points of the two agents
InitEntry == EntryInit /\ CodecIdle /\ AppInit /\ PagesIdle /\ PersistIdle /\ RewardIdle /\ SampleIdle /\ TargetIdle /\ QueueIdle
NextEntry == EntryPolicyGetNextAction \/ EntryTrainWithPPO \/ EntryAgentGetNextAction \/ EntryTrain
SpecEntry == InitEntry /\ [][NextEntry]_vars

\* the two reward functions
InitReward == RewardInit /\ BufferIdle /\ AgentIdle /\ ChipIdle /\ PagesIdle /\ PersistIdle /\ EntryIdle /\ SampleIdle /\ TargetIdle /\ QueueIdle
NextReward == OptimizerCalculateReward \/ PolicyCalculateReward
SpecReward == InitReward /\ [][NextReward]_vars

\* the training targets
InitTarget == TargetInit /\ BufferIdle /\ AgentIdle /\ ChipIdle /\ PagesIdle /\ PersistIdle /\ EntryIdle /\ RewardIdle /\ SampleIdle /\ QueueIdle
NextTarget == UpdateQValues
SpecTarget == InitTarget /\ [][NextTarget]_vars

\* the HolographicProcessor and its queue
InitQueue == QueueInit /\ HoloInit /\ BufferIdle /\ AgentIdle /\ ChipIdle /\ LoopIdle /\ VizInit /\ PersistIdle /\ EntryIdle /\ RewardIdle /\ SampleIdle /\ TargetIdle
NextQueue == ProcessText \/ ResumeDrain \/ Dispose
SpecQueue == InitQueue /\ [][NextQueue]_vars
(***************************************************************************)
(* Properties                                                              *)
(***************************************************************************)
\* the last n elements of s (all of s when it has fewer)
LastN(s, n) == SubSeq(s, Max(1, Len(s) - n + 1), Len(s))

\* C1: after any sequence of add calls the ReplayBuffer holds at most
\* `capacity` transitions, and they are the last `capacity` transitions added,
\* in insertion order (all of them while fewer have been added).
C1_BufferHoldsLastAdded ==
  /\ Len(buffer) <= capacity
  /\ buffer = LastN(added, capacity)

\* more than capacity transitions were added, so the oldest were evicted
C1_Witness ==
  /\ capacity >= 2
  /\ Len(added) >= capacity + 2
  /\ buffer[1] # buffer[2]
  /\ added[1] # buffer[1]

\* C2 as claimed: train records the transition, and with fewer than batchSize
\* transitions stored when it is called it samples nothing, leaves the model
\* as it is and returns 0.
C2_TrainSkipsBelowBatchSize ==
  trainLog.calls > 0 =>
    /\ Len(buffer) = trainLog.before + 1
    /\ buffer[Len(buffer)] = trainLog.given
    /\ trainLog.before < batchSize =>
         /\ ~trainLog.sampled
         /\ model = trainLog.modelBefore
         /\ trainLog.result = 0

\* C2 as amended: train records the transition, and when the occupancy after
\* recording it is below batchSize (fewer than batchSize - 1 stored before the
\* call) it samples nothing, leaves the model as it is and returns 0.
C2_TrainSkipsBelowBatchSizeAfterAdd ==
  trainLog.calls > 0 =>
    /\ Len(buffer) = trainLog.before + 1
    /\ buffer[Len(buffer)] = trainLog.given
    /\ trainLog.before + 1 < batchSize =>
         /\ ~trainLog.sampled
         /\ model = trainLog.modelBefore
         /\ trainLog.result = 0

\* the example of the claim: train called with 10 transitions stored
C2_Witness ==
  /\ trainLog.calls > 0
  /\ trainLog.before = 10
  /\ trainLog.result = 0
  /\ Len(buffer) = 11

\* C3 as claimed: getNextAction never raises, and whenever something fails in
\* it (building the input vector or tensor, the forward pass, the arg-max) it
\* returns the fallback action OptimizeConnections.
C3_GetNextActionNeverRaises ==
  policyLog.calls > 0 =>
    /\ "value" \in DOMAIN policyLog.result
    /\ (policyLog.fault # "none" \/ ~PolicyEncodes(processorState))
         => policyLog.result = Returned(OptimizeConnections)

\* C3 as amended: a failure of the forward pass or of the arg-max makes
\* getNextAction return the fallback action OptimizeConnections; a failure
\* while the input vector or tensor is built is raised to the caller.
C3_FallbackOnPredictionFault ==
  policyLog.calls > 0 =>
    /\ (PolicyEncodes(processorState) /\ policyLog.fault \in {"predict", "argMax"})
         => policyLog.result = Returned(OptimizeConnections)
    /\ (~PolicyEncodes(processorState) \/ policyLog.fault = "tensor2d")
         => "error" \in DOMAIN policyLog.result

\* the forward pass failed and the fallback was returned
C3_Witness ==
  /\ policyLog.calls > 0
  /\ policyLog.fault = "predict"
  /\ PolicyEncodes(processorState)
  /\ policyLog.result = Returned(OptimizeConnections)

\* C4: for every ChipState with a components and a connections array, the
\* encoding of the ChipDesignAgent has exactly 10 entries and the encoding of
\* the AlphaChipOptimizer exactly 30: the feature list, cut after 30 entries
\* when it is longer and followed by zeros when it is shorter.
C4_EncodingHasDeclaredWidth ==
  /\ agentVector.done =>
       /\ "value" \in DOMAIN agentVector
       /\ Len(agentVector.value) = AgentStateSize
  /\ (policyVector.done /\ PolicyEncodes(codecInput)) =>
       /\ "value" \in DOMAIN policyVector
       /\ Len(policyVector.value) = PolicyStateSize
       /\ \A i \in 1..PolicyStateSize :
            policyVector.value[i] =
              IF i <= Len(PolicyStateToVector(codecInput))
                THEN PolicyStateToVector(codecInput)[i]
                ELSE 0

\* both encoders ran on a state with more than 5 components and connections,
\* whose feature list is longer than 30
C4_Witness ==
  /\ agentVector.done
  /\ policyVector.done
  /\ PolicyEncodes(codecInput)
  /\ Len(codecInput.components) > 5
  /\ Len(codecInput.connections) > 5
  /\ Len(PolicyStateToVector(codecInput)) > PolicyStateSize

\* C5: applying an action never changes the ChipState it was given (its
\* value after the call is its value before), and the state it returns
\* shares none of the input's containers: not its components array, not its
\* connections array, not its performance object.
C5_ActionLeavesInputAlone ==
  appLog.calls > 0 =>
    /\ Deref(appLog.input, arrays, perfs) = appLog.inputValue
    /\ appLog.result.value.components # appLog.input.components
    /\ appLog.result.value.connections # appLog.input.connections
    /\ appLog.result.value.performance # appLog.input.performance

\* AddProcessor on a state without components: the array of the state that
\* was passed in has the new processor in it.
C5_Witness ==
  /\ appLog.calls > 0
  /\ appLog.fn = "handleChipOptimization"
  /\ appLog.action = AddProcessor
  /\ appLog.inputValue.components = <<>>
  /\ Len(arrays[appLog.input.components]) = 1

\* C6: an action that is not a member of the receiver's ChipAction
\* enumeration fails with UnknownAction; no successor state is returned.
C6_UnknownActionFails ==
  (appLog.calls > 0 /\ appLog.action \notin ChipAction) =>
    appLog.result = Raised("UnknownAction")

\* An action outside the enumeration, answered with a successor state.
C6_Witness ==
  /\ appLog.calls > 0
  /\ appLog.fn = "handleChipOptimization"
  /\ appLog.action = 5
  /\ "value" \in DOMAIN appLog.result

Range(seq) == { seq[k] : k \in DOMAIN seq }

\* C7: after every start request (a click on the button while the loop is
\* Idle) at least one iteration of the loop that the request started
\* eventually completes.
C7_StartRunsAnIteration ==
  \A k \in 1..MaxRequests :
    [] ((k \in DOMAIN requests /\ requests[k] = "start") => <>(k \in Range(iterations)))

\* A start request whose invocation has returned and whose toggle has been
\* rendered: the button shows the loop as running, and nothing runs.
C7_Witness ==
  /\ requests = <<"start">>
  /\ isOptimizing
  /\ loopRuns = <<>>
  /\ optimizerUpdates = <<>>
  /\ iterations = <<>>

C9_OneIterationAtATime ==
  /\ Cardinality(intervals) <= 1
  /\ Len(callbacks) <= 1

\* A second iteration is in flight, and the first one has completed.
C9_Witness ==
  /\ vizLog.ticks = 2
  /\ vizLog.completed = 1
  /\ Len(callbacks) = 1
  /\ appLog.calls = 1

\* The fields a ProcessorState must have.
Complete(state) ==
  /\ {"quantumState", "photonic", "metrics"} \subseteq DOMAIN state
  /\ {"wavefunction", "coherence", "entanglement"} \subseteq DOMAIN state.quantumState
  /\ {"interference", "hologram"} \subseteq DOMAIN state.photonic
  /\ {"efficiency", "processingPower"} \subseteq DOMAIN state.metrics

\* C10: loadState rejects every input with a missing required field by
\* raising a load error, and on rejection nothing is applied: wavefunction,
\* interference pattern, hologram plate, processing speed and hologram
\* fidelity are what they were before the call.
C10_LoadStateRejectsWhole ==
  holoLog.calls > 0 =>
    /\ ~Complete(holoLog.input) => "error" \in DOMAIN holoLog.result
    /\ "error" \in DOMAIN holoLog.result =>
         /\ wavefunction = holoLog.before.wavefunction
         /\ interferencePattern = holoLog.before.interferencePattern
         /\ hologramPlate = holoLog.before.hologramPlate
         /\ processingSpeed = holoLog.before.processingSpeed
         /\ HologramFidelity(hologramPlate) = HologramFidelity(holoLog.before.hologramPlate)

\* A state without metrics.efficiency, given to a new processor: the call
\* raises, and the wavefunction and the two arrays are those of the input.
C10_Witness ==
  /\ holoLog.calls = 1
  /\ {"quantumState", "photonic", "metrics"} \subseteq DOMAIN holoLog.input
  /\ "efficiency" \notin DOMAIN holoLog.input.metrics
  /\ holoLog.result = Raised(<<"State loading error", "Invalid metrics object">>)
  /\ wavefunction = <<Complex(600, 800)>>
  /\ wavefunction # holoLog.before.wavefunction
  /\ interferencePattern \in Patterns
  /\ hologramPlate \in Plates

\* C11: loadState is the inverse of saveState.  A call of loadState with
\* the state that saveState() returned for the processor as it was before
\* the call, a freshly constructed processor among them, completes without
\* error and leaves the wavefunction, the interference pattern and the
\* hologram plate equal, element by element, to those saved.
C11_LoadStateInvertsSaveState ==
  (holoLog.calls > 0 /\ holoLog.input = SaveState(holoLog.before)) =>
    /\ "value" \in DOMAIN holoLog.result
    /\ wavefunction = holoLog.input.quantumState.wavefunction
    /\ interferencePattern = holoLog.input.photonic.interference
    /\ hologramPlate = holoLog.input.photonic.hologram

\* The round trip on a freshly constructed processor: the call raises.
C11_Witness ==
  /\ holoLog.calls = 1
  /\ holoLog.before = NewHolographicProcessor
  /\ holoLog.input = SaveState(NewHolographicProcessor)
  /\ holoLog.result = Raised(<<"State loading error", "Invalid metrics object">>)

\* C12: load() of either agent on a slot that is missing or corrupt does not
\* raise, and the agent holds the model it held before the call, compiled as
\* it was.
C12_FailedLoadKeepsModel ==
  ( /\ loadLog.calls > 0
    /\ loadLog.fn = "load"
    /\ loadLog.slot \in {MissingSlot, CorruptSlot} )
  => /\ "value" \in DOMAIN loadLog.result
     /\ Held(loadLog.agent) = loadLog.before
     /\ Held(loadLog.agent).compiled

\* A trained AlphaChipOptimizer has called load() on a corrupt slot.
C12_Witness ==
  /\ loadLog.calls > 0
  /\ loadLog.fn = "load"
  /\ loadLog.agent = "AlphaChipOptimizer"
  /\ loadLog.slot = CorruptSlot
  /\ policyModel = MaxModel

\* C13: a training step that fails in an iteration is a no-op for it.  When
\* the library fails in a call of train, the model is left as it was and the
\* iteration that awaits the call goes on, to adopt the successor state and
\* to publish it, instead of ending the loop.
C13_FailedTrainingIsNoOp ==
  (trainLog.calls > 0 /\ trainLog.fault # "none") =>
    /\ model = trainLog.modelBefore
    /\ AwaitCompletes(trainLog.outcome)

\* The library has failed in a call of train: the call has raised.
C13_Witness ==
  /\ trainLog.calls > 0
  /\ trainLog.fault = "trainOnBatch"
  /\ trainLog.sampled
  /\ trainLog.outcome = Raised("Error")

\* C14: the observer callback never throws back into the loop.  When the
\* call of onOptimize raised in an iteration, the iteration has still
\* completed, its setMetrics step included, and the interval is still live,
\* so that later iterations run.
C14_CallbackNeverThrowsBack ==
  (vizLog.last.called /\ vizLog.last.raised) =>
    /\ vizLog.last.finished
    /\ isAutoOptimizing => intervals # {}

\* A callback whose call of onOptimize raised has ended without its
\* setMetrics step; the interval is live.
C14_Witness ==
  /\ vizLog.last.called
  /\ vizLog.last.raised
  /\ ~vizLog.last.finished
  /\ vizLog.metrics = 0
  /\ intervals # {}

\* whether the encoder of the agent of entry point fn returns for the state
EntryEncodes(fn, state) ==
  IF fn \in {"AlphaChipOptimizer.getNextAction", "AlphaChipOptimizer.trainWithPPO"}
    THEN PolicyEncodes(state)
    ELSE AgentEncodes(state)

\* a call of an entry point had to encode a state its encoder cannot read
EncodingFailed ==
  /\ entryLog.calls > 0
  /\ \E state \in entryLog.encoded : ~EntryEncodes(entryLog.fn, state)

\* C15: a state the encoder cannot read, met in getNextAction or in a
\* training entry point of either agent, makes the call raise the encoder's
\* error to its caller: no fallback action or value is returned in its place.
C15_EncodingFailurePropagates ==
  EncodingFailed => entryLog.result = Raised("TypeError")

\* train has sampled a batch that holds the state without performance, and
\* has raised
C15_Witness ==
  /\ EncodingFailed
  /\ entryLog.fn = "ChipDesignAgent.train"
  /\ "error" \in DOMAIN entryLog.result

\* the four metrics of a performance object lie in [0, 100]
InRange(performance) ==
  \A field \in {"powerEfficiency", "areaUtilization", "thermalDissipation", "signalIntegrity"} :
    performance[field] >= 0 /\ performance[field] <= Fixed(100)

\* C16: from metrics in [0, 100], the four metrics of the chip state lie in
\* [0, 100] after every applied action, and so do those of the state each
\* call returns.
C16_MetricsStayInRange ==
  /\ InRange(perfs[chipState.performance])
  /\ appLog.calls > 0 =>
       InRange(Deref(appLog.result.value, arrays, perfs).performance)

\* An action on metrics half a unit away from their limits, with the largest
\* random changes: power efficiency is held at 100 and thermal dissipation
\* at 0.
C16_Witness ==
  /\ appLog.calls > 0
  /\ appLog.fn = "handleChipOptimization"
  /\ appLog.inputValue.performance.powerEfficiency = Fixed(99) + 500
  /\ appLog.inputValue.performance.thermalDissipation = 500
  /\ perfs[chipState.performance].powerEfficiency = Fixed(100)
  /\ perfs[chipState.performance].thermalDissipation = 0

\* the metrics of the chip state
Metrics == perfs[chipState.performance]

\* C17: along repeated applications of OptimizeConnections from the default
\* metrics, signal integrity and power efficiency never go down from one
\* state to the next, never exceed 100, and each reaches a value (100) at
\* which it stays.
C17_OptimizeConnectionsConverges ==
  /\ [][/\ Metrics'.signalIntegrity >= Metrics.signalIntegrity
        /\ Metrics'.powerEfficiency >= Metrics.powerEfficiency]_vars
  /\ [](Metrics.signalIntegrity <= Fixed(100) /\ Metrics.powerEfficiency <= Fixed(100))
  /\ <>[](Metrics.signalIntegrity = Fixed(100))
  /\ <>[](Metrics.powerEfficiency = Fixed(100))

\* Nine applications with Math.random() at 0 throughout: power efficiency has
\* gone from 75 to 100 by the additions of the OptimizeConnections case alone.
C17_Witness ==
  /\ appLog.calls = 9
  /\ appLog.action = OptimizeConnections
  /\ appLog.inputValue.performance.powerEfficiency = Fixed(99)
  /\ Metrics.powerEfficiency = Fixed(100)
  /\ Metrics.signalIntegrity = Fixed(100)
  /\ Metrics.areaUtilization = Fixed(80)

\* the components of the state the last call was given, and of the state it
\* returned
ComponentsBefore == appLog.inputValue.components
ComponentsAfter == Deref(appLog.result.value, arrays, perfs).components

\* C18: an application of AddProcessor or of AddMemory appends exactly one
\* component, of efficiency in [75, 100] and load in [0, 1], and leaves the
\* components that were there in place.
C18_AddAppendsOneComponent ==
  (appLog.calls > 0 /\ appLog.action \in {AddProcessor, AddMemory}) =>
    /\ Len(ComponentsAfter) = Len(ComponentsBefore) + 1
    /\ SubSeq(ComponentsAfter, 1, Len(ComponentsBefore)) = ComponentsBefore
    /\ LET new == ComponentsAfter[Len(ComponentsAfter)]
       IN /\ new.efficiency >= Fixed(75) /\ new.efficiency <= Fixed(100)
          /\ new.load >= 0 /\ new.load <= Fixed(1)

\* AddMemory through handleChipOptimization on a state without components:
\* the state returned has no component.
C18_Witness ==
  /\ appLog.calls > 0
  /\ appLog.fn = "handleChipOptimization"
  /\ appLog.action = AddMemory
  /\ ComponentsBefore = <<>>
  /\ ComponentsAfter = <<>>

\* C19: the ids of the components of the chip state are pairwise distinct
\* after every applied action, and the id of a component that a call has
\* added is the id of no component that was there before.
C19_ComponentIdsUnique ==
  /\ LET components == arrays[chipState.components]
     IN \A i \in DOMAIN components : \A j \in DOMAIN components :
          i # j => components[i].id # components[j].id
  /\ appLog.calls > 0 =>
       \A i \in DOMAIN ComponentsAfter :
         i > Len(ComponentsBefore) =>
           \A j \in DOMAIN ComponentsBefore : ComponentsBefore[j].id # ComponentsAfter[i].id

\* Three calls of which one was no AddProcessor: the last has added the
\* second component, with an id of its own.
C19_Witness ==
  /\ appLog.calls = 3
  /\ appLog.fn = "handleChipOptimization"
  /\ appLog.action = AddProcessor
  /\ Len(ComponentsBefore) = 1
  /\ Len(arrays[chipState.components]) = 2
  /\ ComponentsBefore[1].id # arrays[chipState.components][2].id

\* C20: RemoveComponent on a state with components removes exactly the
\* component of the lowest efficiency and keeps the others; on a state
\* without components it leaves the list empty.
C20_RemoveComponentRemovesLowest ==
  (appLog.calls > 0 /\ appLog.action = RemoveComponent) =>
    IF ComponentsBefore = <<>>
      THEN ComponentsAfter = <<>>
      ELSE \E i \in DOMAIN ComponentsBefore :
             /\ \A j \in DOMAIN ComponentsBefore :
                  ComponentsBefore[i].efficiency <= ComponentsBefore[j].efficiency
             /\ ComponentsAfter = Remove(ComponentsBefore, i)

\* RemoveComponent through handleChipOptimization on a state with two
\* components: the state returned has both.
C20_Witness ==
  /\ appLog.calls > 0
  /\ appLog.fn = "handleChipOptimization"
  /\ appLog.action = RemoveComponent
  /\ Len(ComponentsBefore) = 2
  /\ ComponentsAfter = ComponentsBefore

CompositeBase(state) ==
    3 * (state.performance.powerEfficiency \div 100)
  + 2 * (state.performance.areaUtilization \div 100)
  + 2 * (Fixed(1) - state.performance.thermalDissipation \div 100)
  + 3 * (state.performance.signalIntegrity \div 100)
QualityMean(state) ==
  (state.quantumCoherence + state.entanglementDegree + state.holographicFidelity) \div 3

\* C22: the reward the loop computes for a state is the weighted composite
\* of the four metrics divided by 100, plus a bonus of 0.1 to 0.2 times the
\* mean of quantum coherence, entanglement degree and holographic fidelity
\* (to a thousandth).
C22_LoopRewardIsTheComposite ==
  \A i \in DOMAIN rewardLog :
    rewardLog[i].fn = "ChipOptimizer.calculateReward" =>
      LET state == rewardLog[i].state
      IN /\ 10 * rewardLog[i].result >= CompositeBase(state) + QualityMean(state) - 10
         /\ 10 * rewardLog[i].result <= CompositeBase(state) + 2 * QualityMean(state) + 10

\* the loop's reward for the default state: 62.18
C22_Witness ==
  /\ Len(rewardLog) = 1
  /\ rewardLog[1].fn = "ChipOptimizer.calculateReward"
  /\ rewardLog[1].state = DefaultChipState
  /\ rewardLog[1].result = Fixed(62) + 180

\* C23: AlphaChipOptimizer.calculateReward returns for every state what the
\* loop's reward function returns for it.
C23_RewardsAgree ==
  \A i \in DOMAIN rewardLog : \A j \in DOMAIN rewardLog :
    rewardLog[i].state = rewardLog[j].state => rewardLog[i].result = rewardLog[j].result

\* both functions called on the default state: 0.806 and 62.18
C23_Witness ==
  /\ Len(rewardLog) = 2
  /\ rewardLog[1].fn = "AlphaChipOptimizer.calculateReward"
  /\ rewardLog[2].fn = "ChipOptimizer.calculateReward"
  /\ rewardLog[1].state = DefaultChipState
  /\ rewardLog[2].state = DefaultChipState
  /\ rewardLog[1].result = 806
  /\ rewardLog[2].result = Fixed(62) + 180

\* C24: a failure in the sequence of trainWithPPO (the critic predictions,
\* the advantage and the losses, the gradient computation, the gradient
\* application) stays inside the call: the call returns, and the model of
\* the optimizer and its processorState are what they were before it.
C24_FailedPPOStepIsSkipped ==
  ( /\ entryLog.calls > 0
    /\ entryLog.fn = "AlphaChipOptimizer.trainWithPPO"
    /\ \A state \in entryLog.encoded : PolicyEncodes(state)
    /\ entryLog.fault \in {"predict", "variableGrads", "applyGradients"} ) =>
      /\ "value" \in DOMAIN entryLog.result
      /\ policyModel = entryLog.modelBefore

\* The gradient computation has failed in the second training step of an
\* optimizer, after a first step that changed its model.
C24_Witness ==
  /\ entryLog.calls = 2
  /\ entryLog.fn = "AlphaChipOptimizer.trainWithPPO"
  /\ entryLog.fault = "variableGrads"
  /\ entryLog.result = Returned(Undefined)
  /\ entryLog.modelBefore = 1
  /\ policyModel = 1

C26_TargetReplacesTakenAction ==
  \A i \in DOMAIN targetLog :
    LET row == targetLog[i]
    IN /\ Len(row.target) = 4
       /\ \A a \in 1..4 :
            row.target[a] =
              IF a = row.experience.action + 1
                THEN row.experience.reward
                     + (99 * MaxOf(row.futureQ)) \div 100
                ELSE row.q[a]

\* the target of an experience with action 1 and reward 62.18, whose every
\* next-state Q-value is negative: 62.18 - 0.99
C26_Witness ==
  /\ Len(targetLog) = 2
  /\ targetLog[2].q = <<Fixed(1), -Fixed(2), Fixed(3), 500>>
  /\ targetLog[2].futureQ = <<-Fixed(5), -Fixed(1), -Fixed(3), -Fixed(2)>>
  /\ targetLog[2].experience = [action |-> 1, reward |-> Fixed(62) + 180]
  /\ targetLog[2].target = <<Fixed(1), Fixed(61) + 190, Fixed(3), 500>>

\* The feature list in the order of the specification: the component count
\* divided by 1000, the four metrics divided by 100, the five auxiliary
\* scalars; for the wider encoding, then the five features of each of the
\* first 5 components and the weights of the first 5 connections.
ClaimedPrefix(state) ==
  << Fixed(Len(state.components)) \div 1000,
     state.performance.powerEfficiency \div 100,
     state.performance.areaUtilization \div 100,
     state.performance.thermalDissipation \div 100,
     state.performance.signalIntegrity \div 100,
     state.quantumCoherence,
     state.processingPower,
     state.networkEfficiency,
     state.entanglementDegree,
     state.holographicFidelity >>
ClaimedWide(state) ==
  ClaimedPrefix(state)
  \o Flatten([i \in 1..Min(5, Len(state.components)) |->
                << state.components[i].position.x, state.components[i].position.y,
                   state.components[i].position.z, state.components[i].efficiency,
                   state.components[i].temperature >>])
  \o [j \in 1..Min(5, Len(state.connections)) |-> state.connections[j].weight]

\* C27: both encodings list the features in the order of the specification:
\* the 10-wide one is the prefix, the 30-wide one starts with the wide list
\* (as far as 30 entries go).
C27_EncodingOrder ==
  /\ agentVector.done => agentVector.value = ClaimedPrefix(codecInput)
  /\ (policyVector.done /\ PolicyEncodes(codecInput)) =>
       \A i \in 1..Min(30, Len(ClaimedWide(codecInput))) :
         policyVector.value[i] = ClaimedWide(codecInput)[i]

\* The 30-wide encoding of a state with one component and one connection and
\* the default metrics: its second entry is the number of connections, its
\* third the power efficiency as it is, 75.
C27_Witness ==
  /\ policyVector.done
  /\ codecInput = TestState(1, 1, DefaultPerformance)
  /\ policyVector.value[1] = Fixed(1)
  /\ policyVector.value[2] = Fixed(1)
  /\ policyVector.value[3] = Fixed(75)

\* C28: no call of an entry point of the two agents returns or raises with a
\* tensor it allocated still allocated, whether or not the library failed in
\* it.
C28_TensorsReleased ==
  entryLog.calls > 0 => entryLog.leaked = {}

\* the forward pass has failed in AlphaChipOptimizer.getNextAction: the call
\* has returned the fallback action with its input tensor allocated
C28_Witness ==
  /\ entryLog.calls > 0
  /\ entryLog.fn = "AlphaChipOptimizer.getNextAction"
  /\ entryLog.fault = "predict"
  /\ entryLog.result = Returned(OptimizeConnections)
  /\ entryLog.leaked = {"stateTensor"}

\* the ChipState the optimizer was constructed with, as it was then
ConstructionTimeState == Deref(InitialChipState, InitialArrays, InitialPerfs)

\* C29: no operation changes processorState, so every getNextAction call of
\* the auto-optimize loop encodes the ChipState of construction time,
\* however many actions have been applied to the published state since.
C29_EncodesConstructionTimeState ==
  policyLog.calls > 0 => policyLog.encoded = ConstructionTimeState

\* The second timer tick, after the first one's AddProcessor was applied:
\* getNextAction encodes a state with one component.
C29_Witness ==
  /\ vizLog.ticks = 2
  /\ appLog.calls = 1
  /\ appLog.action = AddProcessor
  /\ policyLog.calls > 0
  /\ Len(policyLog.encoded.components) = 1
  /\ Len(ConstructionTimeState.components) = 0

\* C30: at most one drain loop of processQueue is active at any time, under
\* every interleaving of processText and dispose calls, and isProcessing is
\* true exactly while one is.
C30_OneDrainLoop ==
  /\ Len(drains) <= 1
  /\ isProcessing <=> drains # <<>>

\* two drain loops are suspended at their delays, after one dispose call
C30_Witness ==
  /\ Len(drains) = 2
  /\ queueLog.disposes = 1
  /\ queueLog.texts = 2

=============================================================================
